---- MODULE Spec2Model ----
(***************************************************************************)
(* A model of the request-protection and caching pipeline of the API       *)
(* gateway: the DDoS guard, the WAF guard, the cache service, the cache    *)
(* interceptors and the throttler tiers.                                   *)
(*                                                                         *)
(* Strings the code inspects character by character (header values, user   *)
(* agents, scanned payloads, cache keys) are sequences of one-character    *)
(* strings.  Times are milliseconds, as Date.now() gives them.             *)
(***************************************************************************)
EXTENDS Integers, Sequences, FiniteSets, TLC

VARIABLES
    now,                 \* Date.now()
    \* ---- DdosProtectionGuard (guards/ddos-protection.guard.ts)
    ipConnectionCount,   \* Map<string, number>
    ipRequestHistory,    \* Map<string, number[]>
    suspiciousIPs,       \* Set<string>
    blacklistedIPs,      \* Set<string>
    signatures,          \* global[`signatures_${ip}`]: string[]
    settleTimers,        \* pending setTimeout callbacks of checkConcurrentConnections
    nextCleanup,         \* when the setInterval cleanup is due next
    admitted,            \* what the last canActivate saw and answered
    warmLeft,            \* requests of the opening burst still to come
    requestsLeft,        \* requests the environment may still send
    ticksLeft,           \* clock steps the environment may still take
    \* ---- WafGuard (guards/waf.guard.ts)
    lastIndex,           \* the lastIndex of every pattern (all carry the g flag)
    inspected,           \* what the last WafGuard.canActivate saw and answered
    \* ---- CacheService (services/cache.service.ts)
    redisStore,          \* the keys of the Redis server: text and expiry time
    memoryCache,         \* Map<string, CacheItem>
    isConnected,         \* isConnected
    redisUp,             \* the Redis server answers commands
    nextSweep,           \* when the setInterval of the memory sweep is due next
    cacheOp,             \* the last call of the service, when, and what it returned
    lastSet,             \* per key, the last set not followed by an invalidation
    invalidated,         \* the keys invalidated and not set again since
    cacheOpsLeft,        \* calls the callers may still make
    cacheTicksLeft,      \* clock steps the environment may still take
    \* ---- CacheInterceptor, GraphQLCacheInterceptor (interceptors/)
    callers,             \* the calls of intercept: where each stands and what it got
    handlerCalls,        \* per operation, how often next.handle() has run
    \* ---- the throttler tiers (config/rate-limit.config.ts)
    throttleHits,        \* per scope, policy and tier: the timestamps in the window
    throttleLog,         \* the checks made so far and their answers
    checksLeft,          \* checks the environment may still ask for
    throttleTicksLeft,   \* clock steps the environment may still take
    \* ---- SecurityMonitoringMiddleware (middleware/security-monitoring.middleware.ts)
    securityEvents,      \* securityEvents: SecurityEvent[]
    recorded,            \* the events handed to logSecurityEvent, in the order of the calls,
                         \* and how many were recorded before the first of them
    nextEventSweep,      \* when the setInterval of cleanupOldEvents is due next
    recordsLeft,         \* events the environment may still record
    eventTicksLeft,      \* clock steps the environment may still take
    \* ---- the way of a request through the gateway
    limiterHits,         \* the counters of express-slow-down and express-rate-limit
    answered,            \* the last request: where it ended, the response, the events
    gatewayLeft          \* requests the environment may still send

wafVars == <<lastIndex, inspected>>

cacheVars == <<redisStore, memoryCache, isConnected, redisUp, nextSweep, cacheOp, lastSet, invalidated,
               cacheOpsLeft, cacheTicksLeft>>

interceptorVars == <<callers, handlerCalls>>

throttlerVars == <<throttleHits, throttleLog, checksLeft, throttleTicksLeft>>

monitorVars == <<securityEvents, recorded, nextEventSweep, recordsLeft, eventTicksLeft>>

gatewayVars == <<limiterHits, answered, gatewayLeft>>

ddosVars == <<ipConnectionCount, ipRequestHistory, suspiciousIPs, blacklistedIPs,
              signatures, settleTimers, nextCleanup, admitted>>

-----------------------------------------------------------------------------
(* Strings and maps *)

Min(a, b) == IF a < b THEN a ELSE b

UpperCase == <<"A","B","C","D","E","F","G","H","I","J","K","L","M",
               "N","O","P","Q","R","S","T","U","V","W","X","Y","Z">>
LowerCase == <<"a","b","c","d","e","f","g","h","i","j","k","l","m",
               "n","o","p","q","r","s","t","u","v","w","x","y","z">>

\* one character folded to lower case (the i flag of a RegExp, toLowerCase)
LowerOf == [c \in {UpperCase[i] : i \in 1..26} |->
               LowerCase[CHOOSE i \in 1..26 : UpperCase[i] = c]]

Lower(c) == IF c \in DOMAIN LowerOf THEN LowerOf[c] ELSE c

\* String.prototype.toLowerCase
ToLowerCase(s) == [i \in 1..Len(s) |-> Lower(s[i])]

\* sub occurs in s at position i (1-based), letters compared case-insensitively
OccursAtI(s, sub, i) ==
    /\ i + Len(sub) - 1 <= Len(s)
    /\ \A k \in 1..Len(sub) : Lower(s[i + k - 1]) = Lower(sub[k])

\* /sub/i.test(s) for a literal sub
ContainsI(s, sub) == \E i \in 1..(Len(s) + 1) : OccursAtI(s, sub, i)

\* String.prototype.includes
Includes(s, sub) ==
    \E i \in 1..(Len(s) - Len(sub) + 1) : SubSeq(s, i, i + Len(sub) - 1) = sub

\* String.prototype.substring(0, n)
Substring0(s, n) == SubSeq(s, 1, Min(n, Len(s)))

\* Map.get(k) || dflt
MapGet(m, k, dflt) == IF k \in DOMAIN m THEN m[k] ELSE dflt

\* Map.set(k, v)
MapSet(m, k, v) == (k :> v) @@ m

\* Map.delete for every key in ks
MapDelete(m, ks) == [x \in (DOMAIN m) \ ks |-> m[x]]

EmptyMap == [x \in {} |-> 0]

-----------------------------------------------------------------------------
(* DdosProtectionGuard *)

maxConcurrentConnections == 100
maxRequestsPerMinute == 300
suspiciousRequestsThreshold == 200
timeWindow == 60000
cleanupInterval == 300000
settleDelay == 1000
cleanupAge == 600000
suspiciousLimit == 50
repetitionLimit == 20
signaturesKept == 100
highActivity == 100
distributedIPs == 20
signatureUserAgentLength == 50
minUserAgentLength == 10

S_unknown == <<"u","n","k","n","o","w","n">>
S_UNKNOWN == <<"U","N","K","N","O","W","N">>
S_colon == <<":">>

\* s up to, not including, its first comma: split(',')[0]
RECURSIVE BeforeComma(_)
BeforeComma(s) ==
    IF s = <<>> \/ Head(s) = "," THEN <<>> ELSE <<Head(s)>> \o BeforeComma(Tail(s))

RECURSIVE TrimLeft(_)
TrimLeft(s) == IF s # <<>> /\ Head(s) = " " THEN TrimLeft(Tail(s)) ELSE s

RECURSIVE TrimRight(_)
TrimRight(s) ==
    IF s # <<>> /\ s[Len(s)] = " " THEN TrimRight(SubSeq(s, 1, Len(s) - 1)) ELSE s

Trim(s) == TrimRight(TrimLeft(s))

\* an absent header and an empty one are both falsy: both are <<>> here
getClientIP(request) ==
    IF request.xForwardedFor # <<>> THEN Trim(BeforeComma(request.xForwardedFor))
    ELSE IF request.xRealIP # <<>> THEN request.xRealIP
    ELSE IF request.cfConnectingIP # <<>> THEN request.cfConnectingIP
    ELSE IF request.remoteAddress # <<>> THEN request.remoteAddress
    ELSE IF request.ip # <<>> THEN request.ip
    ELSE S_unknown

\* timestamps.filter(ts => t - ts < window)
RecentRequests(timestamps, t, window) == SelectSeq(timestamps, LAMBDA ts : t - ts < window)

\* The guard's fields as one value g; each check gives the error it throws ("" when it
\* returns normally) and the fields as it leaves them.

checkConcurrentConnectionsOffByOne(g, clientIP, t) ==
    LET currentConnections == MapGet(g.ipConnectionCount, clientIP, 0) IN
    IF currentConnections > maxConcurrentConnections
    THEN [error |-> "connections", g |-> g]
    ELSE [error |-> "",
          g |-> [g EXCEPT
                   !.ipConnectionCount = MapSet(@, clientIP, currentConnections + 1),
                   !.settleTimers = Append(@, [ip |-> clientIP, due |-> t + settleDelay])]]

checkConcurrentConnections(g, clientIP, t) ==
    LET currentConnections == MapGet(g.ipConnectionCount, clientIP, 0) IN
    IF currentConnections >= maxConcurrentConnections
    THEN [error |-> "connections", g |-> g]
    ELSE [error |-> "",
          g |-> [g EXCEPT
                   !.ipConnectionCount = MapSet(@, clientIP, currentConnections + 1),
                   !.settleTimers = Append(@, [ip |-> clientIP, due |-> t + settleDelay])]]

checkRequestRateOneMore(g, clientIP, t) ==
    LET requests == MapGet(g.ipRequestHistory, clientIP, <<>>)
        recentRequests == RecentRequests(requests, t, timeWindow)
    IN  IF Len(recentRequests) > maxRequestsPerMinute
        THEN [error |-> "rate",
              g |-> [g EXCEPT !.suspiciousIPs = @ \cup {clientIP}]]
        ELSE [error |-> "",
              g |-> [g EXCEPT !.ipRequestHistory =
                                  MapSet(@, clientIP, Append(recentRequests, t))]]

checkRequestRate(g, clientIP, t) ==
    LET requests == MapGet(g.ipRequestHistory, clientIP, <<>>)
        recentRequests == RecentRequests(requests, t, timeWindow)
    IN  IF Len(recentRequests) >= maxRequestsPerMinute
        THEN [error |-> "rate",
              g |-> IF Len(recentRequests) >= suspiciousRequestsThreshold
                    THEN [g EXCEPT !.suspiciousIPs = @ \cup {clientIP}]
                    ELSE g]
        ELSE [error |-> "",
              g |-> [g EXCEPT !.ipRequestHistory =
                                  MapSet(@, clientIP, Append(recentRequests, t))]]

botPatterns == << <<"b","o","t">>, <<"c","r","a","w","l","e","r">>,
                 <<"s","p","i","d","e","r">>, <<"s","c","r","a","p","e","r">>,
                 <<"c","u","r","l">>, <<"w","g","e","t">>,
                 <<"p","y","t","h","o","n">>, <<"j","a","v","a">> >>

legitimateBots == << <<"g","o","o","g","l","e","b","o","t">>, <<"b","i","n","g","b","o","t">>,
                    <<"s","l","u","r","p">>, <<"d","u","c","k","d","u","c","k","b","o","t">>,
                    <<"f","a","c","e","b","o","o","k","e","x","t","e","r","n","a","l","h","i","t">>,
                    <<"t","w","i","t","t","e","r","b","o","t">>,
                    <<"l","i","n","k","e","d","i","n","b","o","t">> >>

\* patterns.some(pattern => pattern.test(s)) for literal, case-insensitive patterns
SomeContainsI(patterns, s) == \E k \in 1..Len(patterns) : ContainsI(s, patterns[k])

generateRequestSignature(request) ==
    LET method == IF request.method # <<>> THEN request.method ELSE S_UNKNOWN
        path == IF request.path # <<>> THEN request.path ELSE request.url
    IN  method \o S_colon \o path \o S_colon
            \o Substring0(request.userAgent, signatureUserAgentLength)

getRecentRequestSignatures(g, clientIP) == MapGet(g.signatures, clientIP, <<>>)

addRequestSignature(g, clientIP, signature) ==
    LET pushed == Append(getRecentRequestSignatures(g, clientIP), signature)
        kept == IF Len(pushed) > signaturesKept
                THEN SubSeq(pushed, Len(pushed) - signaturesKept + 1, Len(pushed))
                ELSE pushed
    IN  [g EXCEPT !.signatures = MapSet(@, clientIP, kept)]

analyzeRequestPattern(g, request, clientIP) ==
    LET userAgent == request.userAgent
        requestSignature == generateRequestSignature(request)
        recentSignatures == getRecentRequestSignatures(g, clientIP)
    IN  IF SomeContainsI(botPatterns, userAgent) /\ ~SomeContainsI(legitimateBots, userAgent)
        THEN [error |-> "bot", g |-> g]
        ELSE IF userAgent = <<>> \/ Len(userAgent) < minUserAgentLength
        THEN [error |-> "user-agent", g |-> g]
        ELSE IF Len(SelectSeq(recentSignatures, LAMBDA sig : sig = requestSignature))
                    > repetitionLimit
        THEN [error |-> "repetitive", g |-> g]
        ELSE [error |-> "", g |-> addRequestSignature(g, clientIP, requestSignature)]

\* a heuristic that takes distributedIPs busy clients for an attack already
checkDistributedAttackAtLeast(g, t) ==
    LET recentIPs == {ip \in DOMAIN g.ipRequestHistory :
                        Len(RecentRequests(g.ipRequestHistory[ip], t, timeWindow))
                            > highActivity}
    IN  IF Cardinality(recentIPs) >= distributedIPs
        THEN [g EXCEPT !.suspiciousIPs = @ \cup recentIPs]
        ELSE g

checkDistributedAttack(g, t) ==
    LET recentIPs == {ip \in DOMAIN g.ipRequestHistory :
                        Len(RecentRequests(g.ipRequestHistory[ip], t, timeWindow))
                            > highActivity}
    IN  IF Cardinality(recentIPs) > distributedIPs
        THEN [g EXCEPT !.suspiciousIPs = @ \cup recentIPs]
        ELSE g

\* a check that holds every client to the ceiling of the suspicious ones
checkSuspiciousBehaviorAll(g, clientIP, t) ==
    LET requests == MapGet(g.ipRequestHistory, clientIP, <<>>)
        recentRequests == RecentRequests(requests, t, timeWindow)
    IN  IF Len(recentRequests) > suspiciousLimit
        THEN [error |-> "suspicious", g |-> g]
        ELSE [error |-> "", g |-> checkDistributedAttack(g, t)]

checkSuspiciousBehavior(g, clientIP, t) ==
    LET requests == MapGet(g.ipRequestHistory, clientIP, <<>>)
        recentRequests == RecentRequests(requests, t, timeWindow)
    IN  IF clientIP \in g.suspiciousIPs /\ Len(recentRequests) > suspiciousLimit
        THEN [error |-> "suspicious", g |-> g]
        ELSE [error |-> "", g |-> checkDistributedAttack(g, t)]

isBlacklistedWrongSet(g, clientIP) == clientIP \in g.suspiciousIPs

\* this.blacklistedIPs.has(clientIP)
isBlacklisted(g, clientIP) == clientIP \in g.blacklistedIPs

\* a guard that takes back what its checks did when one of them rejects
canActivateRollback(g, request, t) ==
    IF request.disableDdos
    THEN [allowed |-> TRUE, reason |-> "disabled", g |-> g]
    ELSE
    LET clientIP == getClientIP(request) IN
    IF isBlacklisted(g, clientIP)
    THEN [allowed |-> FALSE, reason |-> "blacklisted", g |-> g]
    ELSE
    LET c1 == checkConcurrentConnections(g, clientIP, t) IN
    IF c1.error # "" THEN [allowed |-> FALSE, reason |-> c1.error, g |-> g]
    ELSE
    LET c2 == checkRequestRate(c1.g, clientIP, t) IN
    IF c2.error # "" THEN [allowed |-> FALSE, reason |-> c2.error, g |-> g]
    ELSE
    LET c3 == analyzeRequestPattern(c2.g, request, clientIP) IN
    IF c3.error # "" THEN [allowed |-> FALSE, reason |-> c3.error, g |-> g]
    ELSE
    LET c4 == checkSuspiciousBehavior(c3.g, clientIP, t) IN
    IF c4.error # "" THEN [allowed |-> FALSE, reason |-> c4.error, g |-> g]
    ELSE [allowed |-> TRUE, reason |-> "ok", g |-> c4.g]

\* a guard that looks at the request rate before the connections
canActivateRateFirst(g, request, t) ==
    IF request.disableDdos
    THEN [allowed |-> TRUE, reason |-> "disabled", g |-> g]
    ELSE
    LET clientIP == getClientIP(request) IN
    IF isBlacklisted(g, clientIP)
    THEN [allowed |-> FALSE, reason |-> "blacklisted", g |-> g]
    ELSE
    LET c1 == checkRequestRate(g, clientIP, t) IN
    IF c1.error # "" THEN [allowed |-> FALSE, reason |-> c1.error, g |-> c1.g]
    ELSE
    LET c2 == checkConcurrentConnections(c1.g, clientIP, t) IN
    IF c2.error # "" THEN [allowed |-> FALSE, reason |-> c2.error, g |-> c2.g]
    ELSE
    LET c3 == analyzeRequestPattern(c2.g, request, clientIP) IN
    IF c3.error # "" THEN [allowed |-> FALSE, reason |-> c3.error, g |-> c3.g]
    ELSE
    LET c4 == checkSuspiciousBehavior(c3.g, clientIP, t) IN
    IF c4.error # "" THEN [allowed |-> FALSE, reason |-> c4.error, g |-> c4.g]
    ELSE [allowed |-> TRUE, reason |-> "ok", g |-> c4.g]

\* canActivate: allowed (returns true) or not (throws the 429), the check that threw,
\* and the guard's fields afterwards
canActivate(g, request, t) ==
    IF request.disableDdos
    THEN [allowed |-> TRUE, reason |-> "disabled", g |-> g]
    ELSE
    LET clientIP == getClientIP(request) IN
    IF isBlacklisted(g, clientIP)
    THEN [allowed |-> FALSE, reason |-> "blacklisted", g |-> g]
    ELSE
    LET c1 == checkConcurrentConnections(g, clientIP, t) IN
    IF c1.error # "" THEN [allowed |-> FALSE, reason |-> c1.error, g |-> c1.g]
    ELSE
    LET c2 == checkRequestRate(c1.g, clientIP, t) IN
    IF c2.error # "" THEN [allowed |-> FALSE, reason |-> c2.error, g |-> c2.g]
    ELSE
    LET c3 == analyzeRequestPattern(c2.g, request, clientIP) IN
    IF c3.error # "" THEN [allowed |-> FALSE, reason |-> c3.error, g |-> c3.g]
    ELSE
    LET c4 == checkSuspiciousBehavior(c3.g, clientIP, t) IN
    IF c4.error # "" THEN [allowed |-> FALSE, reason |-> c4.error, g |-> c4.g]
    ELSE [allowed |-> TRUE, reason |-> "ok", g |-> c4.g]

\* a callback that leaves the counter as it is
settleCallbackIdle(g, clientIP) == g

\* a callback that takes the client's connections to be over
settleCallbackReset(g, clientIP) ==
    [g EXCEPT !.ipConnectionCount = MapSet(@, clientIP, 0)]

\* the setTimeout callback of checkConcurrentConnections
settleCallback(g, clientIP) ==
    LET connections == MapGet(g.ipConnectionCount, clientIP, 0) IN
    IF connections > 0
    THEN [g EXCEPT !.ipConnectionCount = MapSet(@, clientIP, connections - 1)]
    ELSE g

\* a sweep that reclaims every connection counter
cleanupReclaimsAll(g, t) ==
    LET history == g.ipRequestHistory
        kept == [ip \in DOMAIN history |-> RecentRequests(history[ip], t, cleanupAge)]
        emptied == {ip \in DOMAIN history : Len(kept[ip]) = 0}
    IN  [g EXCEPT !.ipRequestHistory = MapDelete(kept, emptied),
                  !.ipConnectionCount = EmptyMap,
                  !.suspiciousIPs = {}]

cleanup(g, t) ==
    LET history == g.ipRequestHistory
        kept == [ip \in DOMAIN history |-> RecentRequests(history[ip], t, cleanupAge)]
        emptied == {ip \in DOMAIN history : Len(kept[ip]) = 0}
        idle == {ip \in DOMAIN g.ipConnectionCount : g.ipConnectionCount[ip] <= 0}
    IN  [g EXCEPT !.ipRequestHistory = MapDelete(kept, emptied),
                  !.ipConnectionCount = MapDelete(@, idle),
                  !.suspiciousIPs = {}]

blacklistIP(g, ip) == [g EXCEPT !.blacklistedIPs = @ \cup {ip}]

removeFromBlacklist(g, ip) == [g EXCEPT !.blacklistedIPs = @ \ {ip}]

-----------------------------------------------------------------------------
(* Regular expressions, as the RegExp objects of WafGuard run them.            *)
(* A pattern is a tree, its letters in lower case: every pattern of the guard   *)
(* carries the i flag, and a character of the input is folded to lower case    *)
(* before it is compared.  Ends gives, for a match attempted at position i of  *)
(* s,                                                                          *)
(* the positions after the match in the order backtracking tries them, so its  *)
(* head is where the match RegExp finds ends.  Positions count from 1; the     *)
(* lastIndex of a RegExp counts from 0.                                        *)

Lit(s) == [t |-> "lit", s |-> s]                    \* literal characters
Chr(cs) == [t |-> "chr", cs |-> cs]                 \* one character of cs
NotChr(cs) == [t |-> "not", cs |-> cs]              \* [^cs]
Exact(c) == [t |-> "exact", c |-> c]                \* the character c, without the i flag
AnyChar == [t |-> "any"]                            \* .
WordChar == [t |-> "word"]                          \* \w
SpaceChar == [t |-> "space"]                        \* \s
WordBoundary == [t |-> "wb"]                        \* \b
Cat(rs) == [t |-> "cat", rs |-> rs]                 \* rs[1] rs[2] ...
Alt(rs) == [t |-> "alt", rs |-> rs]                 \* rs[1] | rs[2] | ...
Star(r) == [t |-> "star", r |-> r, lazy |-> FALSE]  \* r*
LazyStar(r) == [t |-> "star", r |-> r, lazy |-> TRUE] \* r*?
Plus(r) == Cat(<<r, Star(r)>>)                      \* r+

\* the character U+0060, which a TLA+ string cannot hold
Backtick == "backtick"

Digits == {"0","1","2","3","4","5","6","7","8","9"}
WordChars == {UpperCase[i] : i \in 1..26} \cup {LowerCase[i] : i \in 1..26}
                \cup Digits \cup {"_"}
SpaceChars == {" ", "\t", "\n", "\r", "\f"}
LineTerminators == {"\n", "\r"}

IsWordAt(s, i) == i >= 1 /\ i <= Len(s) /\ s[i] \in WordChars

\* the characters lit stand in s at position i, in either case
LitAt(s, lit, i) ==
    /\ i + Len(lit) - 1 <= Len(s)
    /\ \A k \in 1..Len(lit) : Lower(s[i + k - 1]) = lit[k]

\* r* may match nothing (end i) or more (ends more); r*? tries nothing first
StarOrder(lazy, i, more) == IF lazy THEN <<i>> \o more ELSE more \o <<i>>

RECURSIVE Ends(_, _, _), CatEnds(_, _, _, _), CatOver(_, _, _, _),
          AltEnds(_, _, _, _), StarEnds(_, _, _), StarOver(_, _, _)

Ends(re, s, i) ==
    CASE re.t = "lit" -> IF LitAt(s, re.s, i) THEN <<i + Len(re.s)>> ELSE <<>>
      [] re.t = "chr" -> IF i <= Len(s) /\ Lower(s[i]) \in re.cs THEN <<i + 1>> ELSE <<>>
      [] re.t = "not" -> IF i <= Len(s) /\ Lower(s[i]) \notin re.cs THEN <<i + 1>> ELSE <<>>
      [] re.t = "exact" -> IF i <= Len(s) /\ s[i] = re.c THEN <<i + 1>> ELSE <<>>
      [] re.t = "any" -> IF i <= Len(s) /\ s[i] \notin LineTerminators THEN <<i + 1>> ELSE <<>>
      [] re.t = "word" -> IF IsWordAt(s, i) THEN <<i + 1>> ELSE <<>>
      [] re.t = "space" -> IF i <= Len(s) /\ s[i] \in SpaceChars THEN <<i + 1>> ELSE <<>>
      [] re.t = "wb" -> IF IsWordAt(s, i - 1) # IsWordAt(s, i) THEN <<i>> ELSE <<>>
      [] re.t = "cat" -> CatEnds(re.rs, 1, s, i)
      [] re.t = "alt" -> AltEnds(re.rs, 1, s, i)
      [] re.t = "star" -> StarEnds(re, s, i)

CatEnds(rs, k, s, i) ==
    IF k > Len(rs) THEN <<i>> ELSE CatOver(Ends(rs[k], s, i), rs, k + 1, s)

CatOver(es, rs, k, s) ==
    IF es = <<>> THEN <<>> ELSE CatEnds(rs, k, s, Head(es)) \o CatOver(Tail(es), rs, k, s)

AltEnds(rs, k, s, i) ==
    IF k > Len(rs) THEN <<>> ELSE Ends(rs[k], s, i) \o AltEnds(rs, k + 1, s, i)

StarEnds(re, s, i) ==
    StarOrder(re.lazy, i, StarOver(SelectSeq(Ends(re.r, s, i), LAMBDA e : e > i), re, s))

StarOver(es, re, s) ==
    IF es = <<>> THEN <<>> ELSE StarEnds(re, s, Head(es)) \o StarOver(Tail(es), re, s)

\* the first match at or after position i: <<start, end>>, or <<>> when there is none;
\* es are the ends of the matches at i
RECURSIVE MatchFrom(_, _, _), MatchAt(_, _, _, _)
MatchFrom(re, s, i) ==
    IF i > Len(s) + 1 THEN <<>> ELSE MatchAt(re, s, i, Ends(re, s, i))

MatchAt(re, s, i, es) ==
    IF es # <<>> THEN <<i, Head(es)>> ELSE MatchFrom(re, s, i + 1)

\* what test answers when exec found the match m
TestResult(m) ==
    IF m = <<>> THEN [matched |-> FALSE, lastIndex |-> 0]
    ELSE [matched |-> TRUE, lastIndex |-> m[2] - 1]

\* RegExp.prototype.test of a pattern with the g flag whose lastIndex is li: the search
\* starts at li; a match leaves lastIndex after it, a failure resets lastIndex to 0
RegExpTest(re, s, li) ==
    TestResult(IF li > Len(s) THEN <<>> ELSE MatchFrom(re, s, li + 1))

-----------------------------------------------------------------------------
(* WafGuard *)

sqlInjectionPatterns ==
    << Cat(<<WordBoundary,
             Alt(<<Lit(<<"a","l","t","e","r">>), Lit(<<"c","r","e","a","t","e">>),
                   Lit(<<"d","e","l","e","t","e">>), Lit(<<"d","r","o","p">>),
                   Lit(<<"e","x","e","c">>), Lit(<<"e","x","e","c","u","t","e">>),
                   Lit(<<"i","n","s","e","r","t">>), Lit(<<"m","e","r","g","e">>),
                   Lit(<<"s","e","l","e","c","t">>), Lit(<<"u","p","d","a","t","e">>),
                   Lit(<<"u","n","i","o","n">>), Lit(<<"i","n","t","o">>),
                   Lit(<<"f","r","o","m">>), Lit(<<"w","h","e","r","e">>)>>),
             WordBoundary>>),
       Alt(<<Lit(<<"'">>), Lit(<<"\\","'">>),
             Alt(<<Lit(<<"\"">>), Lit(<<"\\","\"">>)>>),
             Alt(<<Lit(<<";">>), Lit(<<"\\",";">>)>>)>>),
       Alt(<<Lit(<<"%","2","7">>), Lit(<<"'">>),
             Cat(<<Alt(<<Lit(<<"%","3","d">>), Lit(<<"=">>)>>),
                   Star(NotChr({"\n"})),
                   Alt(<<Lit(<<"%","2","7">>), Lit(<<"'">>),
                         Alt(<<Lit(<<"%","3","b">>), Lit(<<";">>)>>)>>)>>)>>),
       Cat(<<Alt(<<Lit(<<"%","2","7">>), Lit(<<"'">>)>>), Lit(<<"u","n","i","o","n">>)>>),
       Cat(<<Star(WordChar),
             Alt(<<Lit(<<"%","2","7">>), Lit(<<"'">>)>>),
             Alt(<<Lit(<<"%","6","f">>), Lit(<<"o">>), Lit(<<"%","4","f">>)>>),
             Alt(<<Lit(<<"%","7","2">>), Lit(<<"r">>), Lit(<<"%","5","2">>)>>)>>),
       Cat(<<Lit(<<"e","x","e","c">>), Plus(Alt(<<SpaceChar, Lit(<<"+">>)>>)),
             Alt(<<Lit(<<"s">>), Lit(<<"x">>)>>), Lit(<<"p">>), Plus(WordChar)>>) >>

\* <tag[^>]*>.*?</tag>
TagPair(open, close) ==
    Cat(<<Lit(open), Star(NotChr({">"})), Lit(<<">">>), LazyStar(AnyChar), Lit(close)>>)

\* <tag[^>]*>
TagOpen(open) == Cat(<<Lit(open), Star(NotChr({">"})), Lit(<<">">>)>>)

xssPatterns ==
    << TagPair(<<"<","s","c","r","i","p","t">>, <<"<","/","s","c","r","i","p","t",">">>),
       TagPair(<<"<","i","f","r","a","m","e">>, <<"<","/","i","f","r","a","m","e",">">>),
       TagPair(<<"<","o","b","j","e","c","t">>, <<"<","/","o","b","j","e","c","t",">">>),
       TagOpen(<<"<","e","m","b","e","d">>),
       TagOpen(<<"<","l","i","n","k">>),
       TagOpen(<<"<","m","e","t","a">>),
       Lit(<<"j","a","v","a","s","c","r","i","p","t",":">>),
       Cat(<<Lit(<<"o","n">>), Plus(WordChar), Star(SpaceChar), Lit(<<"=">>)>>),
       Cat(<<Lit(<<"<">>), LazyStar(AnyChar), Lit(<<"s","t","y","l","e">>), Star(SpaceChar),
             Lit(<<"=">>), LazyStar(AnyChar),
             Lit(<<"e","x","p","r","e","s","s","i","o","n">>), Star(SpaceChar),
             Lit(<<"(">>)>>) >>

pathTraversalPatterns ==
    << Lit(<<".",".","/">>),
       Lit(<<".",".","\\">>),
       Lit(<<"%","2","e","%","2","e","%","2","f">>),
       Lit(<<"%","2","e","%","2","e">>),
       Lit(<<".",".","%","2","f">>),
       Lit(<<"%","2","e","%","2","e","%","5","c">>) >>

commandInjectionPatterns ==
    << Chr({"|", "&", ";", "$", Backtick}),
       Alt(<<Lit(<<"n","c"," ">>), Lit(<<"n","c","a","t"," ">>),
             Lit(<<"n","e","t","c","a","t"," ">>), Lit(<<"c","u","r","l"," ">>),
             Lit(<<"w","g","e","t"," ">>)>>),
       Alt(<<Lit(<<"c","h","m","o","d"," ">>), Lit(<<"c","h","o","w","n"," ">>),
             Lit(<<"r","m"," ">>), Lit(<<"m","v"," ">>), Lit(<<"c","p"," ">>)>>) >>

\* (\)|(\%29))(sep|(code))((\w)|(\%\w))
LdapPattern(sep, code) ==
    Cat(<<Alt(<<Lit(<<")">>), Lit(<<"%","2","9">>)>>),
          Alt(<<Lit(sep), Lit(code)>>),
          Alt(<<WordChar, Cat(<<Lit(<<"%">>), WordChar>>)>>)>>)

ldapInjectionPatterns ==
    << LdapPattern(<<"&">>, <<"%","2","6">>),
       LdapPattern(<<"|">>, <<"%","7","c">>) >>

nosqlInjectionPatterns ==
    << Lit(<<"$","w","h","e","r","e">>), Lit(<<"$","n","e">>), Lit(<<"$","g","t">>),
       Lit(<<"$","l","t">>), Lit(<<"$","r","e","g","e","x">>), Lit(<<"$","o","r">>),
       Lit(<<"$","a","n","d">>) >>

\* the pattern sets in the order scanString consults them, and what it reports for each
PatternSets ==
    <<sqlInjectionPatterns, xssPatterns, pathTraversalPatterns,
      commandInjectionPatterns, ldapInjectionPatterns, nosqlInjectionPatterns>>

Categories ==
    <<"SQL injection", "XSS attack", "Path traversal",
      "Command injection", "LDAP injection", "NoSQL injection">>

\* every pattern as the constructor leaves it: lastIndex 0
FreshLastIndex == [c \in 1..Len(PatternSets) |-> [k \in 1..Len(PatternSets[c]) |-> 0]]

\* patterns.some(pattern => pattern.test(input)), li the patterns' lastIndex values:
\* the patterns are tried in order up to the first that matches
RECURSIVE someTest(_, _, _, _), someTested(_, _, _, _, _)
someTest(input, patterns, li, k) ==
    IF k > Len(patterns) THEN [matched |-> FALSE, li |-> li]
    ELSE someTested(input, patterns, li, k, RegExpTest(patterns[k], input, li[k]))

\* r is what pattern k answered
someTested(input, patterns, li, k, r) ==
    IF r.matched THEN [matched |-> TRUE, li |-> [li EXCEPT ![k] = r.lastIndex]]
    ELSE someTest(input, patterns, [li EXCEPT ![k] = r.lastIndex], k + 1)

matchesPatterns(input, patterns, li) == someTest(input, patterns, li, 1)

\* the characters %20 .. %7E stand for
Ascii ==
    << " ", "!", "\"", "#", "$", "%", "&", "'", "(", ")", "*", "+", ",", "-", ".", "/",
       "0", "1", "2", "3", "4", "5", "6", "7", "8", "9", ":", ";", "<", "=", ">", "?",
       "@", "A", "B", "C", "D", "E", "F", "G", "H", "I", "J", "K", "L", "M", "N", "O",
       "P", "Q", "R", "S", "T", "U", "V", "W", "X", "Y", "Z", "[", "\\", "]", "^", "_",
       Backtick, "a", "b", "c", "d", "e", "f", "g", "h", "i", "j", "k", "l", "m", "n", "o",
       "p", "q", "r", "s", "t", "u", "v", "w", "x", "y", "z", "{", "|", "}", "~" >>

HexDigits == <<"0","1","2","3","4","5","6","7","8","9","a","b","c","d","e","f">>
IsHex(c) == \E k \in 1..16 : HexDigits[k] = Lower(c)
HexValue(c) == (CHOOSE k \in 1..16 : HexDigits[k] = Lower(c)) - 1

\* the character with code n < 128; a control character other than tab, line feed,
\* form feed and carriage return is the token "ctl", which no pattern names
CharOfCode(n) ==
    IF n >= 32 /\ n <= 126 THEN Ascii[n - 31]
    ELSE IF n = 9 THEN "\t"
    ELSE IF n = 10 THEN "\n"
    ELSE IF n = 12 THEN "\f"
    ELSE IF n = 13 THEN "\r"
    ELSE "ctl"

EscapeCode(s, i) == 16 * HexValue(s[i + 1]) + HexValue(s[i + 2])

\* decodeURIComponent throws URIError: a % that two hexadecimal digits do not follow.
\* Escapes above %7F (UTF-8 sequences) are not among the inputs of this model and
\* are taken as malformed.
MalformedURI(s) ==
    \E i \in 1..Len(s) :
        /\ s[i] = "%"
        /\ \/ i + 2 > Len(s)
           \/ ~IsHex(s[i + 1])
           \/ ~IsHex(s[i + 2])
           \/ EscapeCode(s, i) >= 128

RECURSIVE decodeURIComponent(_)
decodeURIComponent(s) ==
    IF s = <<>> THEN <<>>
    ELSE IF Head(s) = "%"
         THEN <<CharOfCode(EscapeCode(s, 1))>> \o decodeURIComponent(SubSeq(s, 4, Len(s)))
         ELSE <<Head(s)>> \o decodeURIComponent(Tail(s))

\* String.prototype.replace(/from/g, to) for a literal from, matched exactly
RECURSIVE ReplaceAll(_, _, _)
ReplaceAll(s, from, to) ==
    IF s = <<>> THEN <<>>
    ELSE IF Len(from) <= Len(s) /\ SubSeq(s, 1, Len(from)) = from
         THEN to \o ReplaceAll(SubSeq(s, Len(from) + 1, Len(s)), from, to)
         ELSE <<Head(s)>> \o ReplaceAll(Tail(s), from, to)

decodeInput(input) ==
    IF MalformedURI(input) THEN input
    ELSE LET d0 == decodeURIComponent(input)
             d1 == ReplaceAll(d0, <<"&","l","t",";">>, <<"<">>)
             d2 == ReplaceAll(d1, <<"&","g","t",";">>, <<">">>)
             d3 == ReplaceAll(d2, <<"&","q","u","o","t",";">>, <<"\"">>)
             d4 == ReplaceAll(d3, <<"&","#","x","2","7",";">>, <<"'">>)
             d5 == ReplaceAll(d4, <<"&","#","x","2","F",";">>, <<"/">>)
         IN  ReplaceAll(d5, <<"&","a","m","p",";">>, <<"&">>)

\* what a scan returns: the Error it throws ("" when it returns normally), where,
\* and the lastIndex values L it leaves in the patterns
Passed(L) == [error |-> "", location |-> <<>>, L |-> L]

RECURSIVE scanSets(_, _, _, _), scannedSet(_, _, _, _, _)
scanSets(decodedInput, location, L, c) ==
    IF c > Len(PatternSets) THEN Passed(L)
    ELSE scannedSet(decodedInput, location, L, c,
                    matchesPatterns(decodedInput, PatternSets[c], L[c]))

\* r is what matchesPatterns answered for pattern set c
scannedSet(decodedInput, location, L, c, r) ==
    IF r.matched
    THEN [error |-> Categories[c], location |-> location, L |-> [L EXCEPT ![c] = r.li]]
    ELSE scanSets(decodedInput, location, [L EXCEPT ![c] = r.li], c + 1)

scanString(input, location, L) ==
    IF input = <<>> THEN Passed(L)
    ELSE scanSets(decodeInput(input), location, L, 1)

\* A value of a request: [t |-> "str", s |-> characters], [t |-> "obj", fields |->
\* entries [key, value] in enumeration order], or [t |-> "none"] (undefined, null).
Str(s) == [t |-> "str", s |-> s]
Obj(fields) == [t |-> "obj", fields |-> fields]
None == [t |-> "none"]

\* if (value) ...
Truthy(v) == v.t = "obj" \/ (v.t = "str" /\ v.s # <<>>)

RECURSIVE scanObject(_, _, _), scanFields(_, _, _, _), scanValue(_, _, _, _),
          scanRest(_, _, _, _)
scanObject(obj, location, L) ==
    IF obj.t = "str" THEN scanString(obj.s, location, L)
    ELSE IF obj.t = "obj" THEN scanFields(obj.fields, location, L, 1)
    ELSE Passed(L)

\* for (const key in obj), from the k-th key on
scanFields(fields, location, L, k) ==
    IF k > Len(fields) THEN Passed(L)
    ELSE scanValue(fields, location, k, scanString(fields[k].key, location \o <<"key">>, L))

\* this.scanObject(obj[key], location), after the scan r of the key
scanValue(fields, location, k, r) ==
    IF r.error # "" THEN r
    ELSE scanRest(fields, location, k, scanObject(fields[k].value, location, r.L))

\* the keys after the k-th, after the scan r of its value
scanRest(fields, location, k, r) ==
    IF r.error # "" THEN r ELSE scanFields(fields, location, r.L, k + 1)

\* headers[name], headers the entries [name, value] of the request in order
HeaderValue(headers, name) ==
    IF \E k \in 1..Len(headers) : headers[k].name = name
    THEN headers[CHOOSE k \in 1..Len(headers) : headers[k].name = name].value
    ELSE <<>>

suspiciousHeaders ==
    << <<"u","s","e","r","-","a","g","e","n","t">>, <<"r","e","f","e","r","e","r">>,
       <<"o","r","i","g","i","n">> >>

\* name.toLowerCase().startsWith('x-')
IsCustomHeader(name) == Len(name) >= 2 /\ Lower(name[1]) = "x" /\ name[2] = "-"

\* the scan of a header value, unless an earlier scan r has thrown
ThenScanHeader(r, name, value) ==
    IF r.error # "" THEN r ELSE scanString(value, <<"header", name>>, r.L)

\* for (const headerName of suspiciousHeaders), from the k-th on
RECURSIVE scanNamed(_, _, _)
scanNamed(headers, r, k) ==
    IF k > Len(suspiciousHeaders) THEN r
    ELSE scanNamed(headers,
                   ThenScanHeader(r, suspiciousHeaders[k],
                                  HeaderValue(headers, suspiciousHeaders[k])),
                   k + 1)

\* for (const [name, value] of Object.entries(headers)), from the k-th on
RECURSIVE scanCustom(_, _, _)
scanCustom(headers, r, k) ==
    IF k > Len(headers) THEN r
    ELSE IF IsCustomHeader(headers[k].name)
         THEN scanCustom(headers, ThenScanHeader(r, headers[k].name, headers[k].value), k + 1)
         ELSE scanCustom(headers, r, k + 1)

scanHeaders(headers, L) == scanCustom(headers, scanNamed(headers, Passed(L), 1), 1)

suspiciousExtensions ==
    { <<".","e","x","e">>, <<".","b","a","t">>, <<".","c","m","d">>, <<".","c","o","m">>,
      <<".","p","i","f">>, <<".","s","c","r">>, <<".","v","b","s">>, <<".","j","s">> }

maxFileSize == 10 * 1024 * 1024
maxBodySize == 1024 * 1024

\* String.prototype.lastIndexOf('.'), 0-based, -1 when there is no dot
LastDot(name) ==
    IF \E i \in 1..Len(name) : name[i] = "."
    THEN (CHOOSE i \in 1..Len(name) : name[i] = "." /\ \A j \in (i + 1)..Len(name) : name[j] # ".") - 1
    ELSE -1

\* originalname.toLowerCase().slice(originalname.lastIndexOf('.')); slice(-1) is the last character
FileExtension(name) ==
    LET at == LastDot(name)
        from == IF at < 0 THEN Len(name) ELSE at + 1
    IN  [i \in 1..(Len(name) - from + 1) |-> Lower(name[from + i - 1])]

\* files: the uploaded files [originalname, size] of the request, in order
RECURSIVE checkFiles(_, _)
checkFiles(files, k) ==
    IF k > Len(files) THEN ""
    ELSE IF files[k].originalname = <<>> THEN checkFiles(files, k + 1)
    ELSE IF FileExtension(files[k].originalname) \in suspiciousExtensions
         THEN "Suspicious file upload"
    ELSE IF files[k].size > maxFileSize THEN "File too large"
    ELSE checkFiles(files, k + 1)

checkFileUploads(request) == checkFiles(request.files, 1)

\* parseInt(s, 10): leading white space, a sign, then digits; NaN (here -1, which like
\* NaN is not above any limit) when no digit follows
RECURSIVE ParseDigits(_, _)
ParseDigits(s, acc) ==
    IF s = <<>> \/ Head(s) \notin Digits THEN acc
    ELSE ParseDigits(Tail(s), 10 * acc + HexValue(Head(s)))

RECURSIVE parseInt(_)
parseInt(s) ==
    IF s = <<>> THEN -1
    ELSE IF Head(s) \in SpaceChars THEN parseInt(Tail(s))
    ELSE IF Head(s) = "+" THEN
            (IF Len(s) > 1 /\ s[2] \in Digits THEN ParseDigits(Tail(s), 0) ELSE -1)
    ELSE IF Head(s) = "-" THEN
            (IF Len(s) > 1 /\ s[2] \in Digits THEN 0 - ParseDigits(Tail(s), 0) ELSE -1)
    ELSE IF Head(s) \in Digits THEN ParseDigits(s, 0)
    ELSE -1

S_contentLength == <<"c","o","n","t","e","n","t","-","l","e","n","g","t","h">>

checkRequestSize(request) ==
    LET header == HeaderValue(request.headers, S_contentLength) IN
    IF header # <<>> /\ parseInt(header) > maxBodySize
    THEN "Request body too large" ELSE ""

\* if (value) this.scanObject(value, location), unless an earlier scan r has thrown
ThenScanObject(r, value, location) ==
    IF r.error # "" \/ ~Truthy(value) THEN r ELSE scanObject(value, location, r.L)

\* this.scanHeaders(headers), unless an earlier scan r has thrown
ThenScanHeaders(r, headers) ==
    IF r.error # "" THEN r ELSE scanHeaders(headers, r.L)

\* checkFileUploads and checkRequestSize after the scans r, and what the catch block
\* makes of the first Error thrown
ThenCheckRequest(r, request) ==
    IF r.error # "" THEN [allowed |-> FALSE, error |-> r.error, location |-> r.location, L |-> r.L]
    ELSE IF checkFileUploads(request) # ""
         THEN [allowed |-> FALSE, error |-> checkFileUploads(request), location |-> <<>>, L |-> r.L]
    ELSE IF checkRequestSize(request) # ""
         THEN [allowed |-> FALSE, error |-> checkRequestSize(request), location |-> <<>>, L |-> r.L]
    ELSE [allowed |-> TRUE, error |-> "", location |-> <<>>, L |-> r.L]

\* WafGuard.canActivate on a request with the patterns' lastIndex values L: whether
\* the request passes, the Error caught when it does not, and the lastIndex values left
WafGuardCanActivate(request, L) ==
    IF request.disableWaf THEN [allowed |-> TRUE, error |-> "", location |-> <<>>, L |-> L]
    ELSE ThenCheckRequest(
             ThenScanHeaders(
                 ThenScanObject(
                     ThenScanObject(
                         ThenScanObject(Passed(L), request.body, <<"request body">>),
                         request.query, <<"query parameters">>),
                     request.params, <<"URL parameters">>),
                 request.headers),
             request)

-----------------------------------------------------------------------------
(* CacheService (services/cache.service.ts).  The service is the record c of   *)
(* its fields; redis is what the Redis server holds, which outlives a lost     *)
(* connection; up says whether the server answers the client's commands.       *)

DEFAULT_TTL == 300
QUERY_CACHE_TTL == 180
TASK_CACHE_TTL == 60
CLEANUP_INTERVAL_MS == 60000

S_prefix == <<"a","p","i","-","g","a","t","e","w","a","y",":">>

prefixKey(key) == S_prefix \o key

\* cached values: strings, and null for nothing
Null == [t |-> "null", s |-> <<>>]
S_null == <<"n","u","l","l">>

V1 == [t |-> "str", s |-> <<"a">>]
V2 == [t |-> "str", s |-> <<"b">>]

\* JSON.stringify and JSON.parse, on strings without quotes or backslashes and null
JsonStringify(value) ==
    IF value.t = "null" THEN S_null ELSE <<"\"">> \o value.s \o <<"\"">>

JsonParse(text) ==
    IF text = S_null THEN Null ELSE [t |-> "str", s |-> SubSeq(text, 2, Len(text) - 1)]

\* a key of the Redis server is gone once its expiry time has passed
RedisLive(redis, t) == {k \in DOMAIN redis : ~(t > redis[k].expireAt)}

\* GET: the stored text, <<>> (nil) for a key that is absent or expired
RedisGet(redis, k, t) == IF k \in RedisLive(redis, t) THEN redis[k].text ELSE <<>>

\* SETEX
RedisSetex(redis, k, seconds, text, t) ==
    MapSet(redis, k, [text |-> text, expireAt |-> t + seconds * 1000])

\* text matches the glob pattern: * any run of characters, ? any one character, any
\* other character itself (the patterns here hold no brackets and no backslashes)
RECURSIVE GlobMatches(_, _)
GlobMatches(text, pattern) ==
    IF pattern = <<>> THEN text = <<>>
    ELSE IF Head(pattern) = "*"
         THEN \/ GlobMatches(text, Tail(pattern))
              \/ text # <<>> /\ GlobMatches(Tail(text), pattern)
    ELSE /\ text # <<>>
         /\ Head(pattern) = "?" \/ Head(pattern) = Head(text)
         /\ GlobMatches(Tail(text), Tail(pattern))

\* KEYS pattern
RedisKeys(redis, pattern, t) == {k \in RedisLive(redis, t) : GlobMatches(k, pattern)}

\* new RegExp(source) for a source of ordinary characters, "." and ".*"
RECURSIVE RegExpOf(_)
RegExpOf(source) ==
    IF source = <<>> THEN <<>>
    ELSE IF Head(source) = "." /\ Len(source) > 1 /\ source[2] = "*"
         THEN <<Star(AnyChar)>> \o RegExpOf(SubSeq(source, 3, Len(source)))
    ELSE IF Head(source) = "." THEN <<AnyChar>> \o RegExpOf(Tail(source))
    ELSE <<Exact(Head(source))>> \o RegExpOf(Tail(source))

\* regex.test(key) for the pattern ^source$: a match from the first character to the last
matchesPattern(key, pattern) ==
    LET regexPattern == ReplaceAll(ReplaceAll(pattern, <<"*">>, <<".", "*">>), <<"?">>, <<".">>)
        ends == Ends(Cat(RegExpOf(regexPattern)), key, 1)
    IN  \E n \in 1..Len(ends) : ends[n] = Len(key) + 1

NewCache == [redis |-> EmptyMap, memoryCache |-> EmptyMap, isConnected |-> FALSE]

Expired(item, t) == t - item.timestamp > item.ttl * 1000

cleanupMemoryCache(c, t) ==
    [c EXCEPT !.memoryCache =
        MapDelete(@, {key \in DOMAIN @ : Expired(@[key], t)})]

\* get(key) at time t: the value returned and the service afterwards
cacheGet(c, key, t, up) ==
    IF c.isConnected /\ ~up THEN [value |-> Null, c |-> c]
    ELSE IF c.isConnected /\ RedisGet(c.redis, prefixKey(key), t) # <<>>
         THEN [value |-> JsonParse(RedisGet(c.redis, prefixKey(key), t)), c |-> c]
    ELSE IF key \in DOMAIN c.memoryCache
         THEN IF ~Expired(c.memoryCache[key], t)
              THEN [value |-> c.memoryCache[key].data, c |-> c]
              ELSE [value |-> Null,
                    c |-> [c EXCEPT !.memoryCache = MapDelete(@, {key})]]
    ELSE [value |-> Null, c |-> c]

\* a set that gives up when the Redis write fails
cacheSetPrimaryOnly(c, key, value, ttl, t, up) ==
    LET finalTtl == IF ttl = 0 THEN DEFAULT_TTL ELSE ttl
        item == [data |-> value, timestamp |-> t, ttl |-> finalTtl]
    IN  IF c.isConnected /\ ~up THEN [ok |-> FALSE, c |-> c]
        ELSE [ok |-> TRUE,
              c |-> [c EXCEPT
                       !.redis = IF c.isConnected
                                 THEN RedisSetex(@, prefixKey(key), finalTtl, JsonStringify(value), t)
                                 ELSE @,
                       !.memoryCache = MapSet(@, key, item)]]

\* set(key, value, ttl) at time t; ttl 0 stands for an omitted ttl
cacheSet(c, key, value, ttl, t, up) ==
    LET finalTtl == IF ttl = 0 THEN DEFAULT_TTL ELSE ttl
        item == [data |-> value, timestamp |-> t, ttl |-> finalTtl]
    IN  [ok |-> TRUE,
         c |-> [c EXCEPT
                  !.redis = IF c.isConnected /\ up
                            THEN RedisSetex(@, prefixKey(key), finalTtl, JsonStringify(value), t)
                            ELSE @,
                  !.memoryCache = MapSet(@, key, item)]]

\* delete(key)
cacheDelete(c, key, t, up) ==
    IF c.isConnected /\ ~up THEN [deleted |-> FALSE, c |-> c]
    ELSE [deleted |-> \/ c.isConnected /\ prefixKey(key) \in RedisLive(c.redis, t)
                      \/ key \in DOMAIN c.memoryCache,
          c |-> [c EXCEPT
                   !.redis = IF c.isConnected THEN MapDelete(@, {prefixKey(key)}) ELSE @,
                   !.memoryCache = MapDelete(@, {key})]]

\* deletePattern(pattern)
deletePattern(c, pattern, t, up) ==
    IF c.isConnected /\ ~up THEN [deletedCount |-> 0, c |-> c]
    ELSE LET keys == IF c.isConnected THEN RedisKeys(c.redis, prefixKey(pattern), t) ELSE {}
             memoryKeys == {key \in DOMAIN c.memoryCache : matchesPattern(key, pattern)}
         IN  [deletedCount |-> Cardinality(keys) + Cardinality(memoryKeys),
              c |-> [c EXCEPT !.redis = MapDelete(@, keys),
                              !.memoryCache = MapDelete(@, memoryKeys)]]

-----------------------------------------------------------------------------
(* The cache interceptors (interceptors/cache.interceptor.ts,                  *)
(* interceptors/graphql-cache.interceptor.ts) and the key templates of the     *)
(* cache decorators.  A call is the handler with its metadata and arguments;   *)
(* arguments are strings.                                                      *)

USER_CACHE_TTL == 600
AI_CACHE_TTL == 900

getTTLs == [DEFAULT |-> DEFAULT_TTL, QUERY |-> QUERY_CACHE_TTL, USER |-> USER_CACHE_TTL,
            TASK |-> TASK_CACHE_TTL, AI |-> AI_CACHE_TTL]

\* new RegExp(`{{${index}}}`, 'g'): the second brace opens the quantifier {index} of
\* the first, so the expression matches "{" taken index times and then one "}"
Placeholder(index) == [n \in 1..index |-> "{"] \o <<"}">>

\* args.forEach((arg, index) => key = key.replace(placeholder, String(arg)))
RECURSIVE replaceIndexed(_, _, _)
replaceIndexed(key, args, index) ==
    IF index >= Len(args) THEN key
    ELSE replaceIndexed(ReplaceAll(key, Placeholder(index), args[index + 1]), args, index + 1)

\* a key template: a string, or a function (...args) => prefix + args[0], or none
StringTemplate(s) == [t |-> "string", s |-> s]
FunctionTemplate(prefix) == [t |-> "function", s |-> prefix]
NoTemplate == [t |-> "none", s |-> <<>>]

\* CacheKeyUtils.generateKey(template, args), called without paramNames
generateKey(template, args) ==
    IF template.t = "function" THEN template.s \o args[1]
    ELSE replaceIndexed(template.s, args, 0)

\* CacheKeyUtils.generateDefaultKey; argsHash is the first 8 hex digits of the MD5
\* digest of the arguments, which comes with the call
generateDefaultKey(className, methodName, argsHash) ==
    className \o S_colon \o methodName \o S_colon \o argsHash

\* CacheInterceptor.generateCacheKey
generateCacheKey(call) ==
    IF call.keyTemplate.t # "none" THEN generateKey(call.keyTemplate, call.args)
    ELSE generateDefaultKey(call.className, call.methodName, call.argsHash)

S_gql == <<"g","q","l",":">>

\* GraphQLCacheInterceptor.generateCacheKey; queryHash is the first 16 hex digits of
\* the SHA-256 digest of operation, arguments and user, which comes with the call
generateGqlCacheKey(call) == S_gql \o call.fieldName \o S_colon \o call.queryHash

S_userWord == <<"u","s","e","r">>
S_profile == <<"p","r","o","f","i","l","e">>
S_task == <<"t","a","s","k">>
S_job == <<"j","o","b">>
S_ai == <<"a","i">>
S_chat == <<"c","h","a","t">>
S_insight == <<"i","n","s","i","g","h","t">>
S_dashboard == <<"d","a","s","h","b","o","a","r","d">>
S_analytics == <<"a","n","a","l","y","t","i","c","s">>

\* GraphQLCacheInterceptor.getTTLForQuery
getTTLForQuery(queryName) ==
    IF Includes(queryName, S_userWord) \/ Includes(queryName, S_profile) THEN getTTLs.USER
    ELSE IF Includes(queryName, S_task) \/ Includes(queryName, S_job) THEN getTTLs.TASK
    ELSE IF \/ Includes(queryName, S_ai) \/ Includes(queryName, S_chat)
            \/ Includes(queryName, S_insight) THEN getTTLs.AI
    ELSE IF Includes(queryName, S_dashboard) \/ Includes(queryName, S_analytics)
         THEN getTTLs.QUERY
    ELSE getTTLs.DEFAULT

\* what intercept does with a call before it returns: "hit" gives the cached value,
\* the other routes give next.handle() with the tap of that route
Routed(route, key, value, c) == [route |-> route, key |-> key, value |-> value, c |-> c]

Looked(key, got) ==
    IF got.value # Null THEN Routed("hit", key, got.value, got.c)
    ELSE Routed("miss", key, Null, got.c)

\* CacheInterceptor.intercept
intercept(c, call, t, up) ==
    IF call.invalidate.on THEN Routed("invalidate", <<>>, Null, c)
    ELSE IF call.condition = "unmet" THEN Routed("bypass", <<>>, Null, c)
    ELSE Looked(generateCacheKey(call), cacheGet(c, generateCacheKey(call), t, up))

\* GraphQLCacheInterceptor.intercept
graphqlIntercept(c, call, t, up) ==
    IF call.operation # "query" THEN Routed("bypass", <<>>, Null, c)
    ELSE IF call.noCache THEN Routed("bypass", <<>>, Null, c)
    ELSE Looked(generateGqlCacheKey(call), cacheGet(c, generateGqlCacheKey(call), t, up))

\* the calls of the cache service that the tap makes, one after the other
SetCall(key, value, ttl) == [op |-> "set", key |-> key, value |-> value, ttl |-> ttl]
DeleteCall(key) == [op |-> "delete", key |-> key, value |-> Null, ttl |-> 0]
DeletePatternCall(pattern) == [op |-> "deletePattern", key |-> pattern, value |-> Null, ttl |-> 0]

\* CacheInterceptor.handleCacheInvalidation
handleCacheInvalidation(config, args) ==
    IF config.condition = "unmet" THEN <<>>
    ELSE [k \in 1..Len(config.keys) |-> DeleteCall(generateKey(config.keys[k], args))]
         \o [k \in 1..Len(config.patterns) |->
                DeletePatternCall(generateKey(config.patterns[k], args))]

\* a tap that caches whatever the handler answers, null included
tapCallsCacheNull(call, route, key, result) ==
    IF route = "invalidate" THEN handleCacheInvalidation(call.invalidate, call.args)
    ELSE IF route = "miss"
         THEN <<SetCall(key, result, IF call.ttl = 0 THEN getTTLs.DEFAULT ELSE call.ttl)>>
    ELSE <<>>

\* the tap of CacheInterceptor.intercept on the handler's result
tapCalls(call, route, key, result) ==
    IF route = "invalidate" THEN handleCacheInvalidation(call.invalidate, call.args)
    ELSE IF route = "miss" /\ result # Null
         THEN <<SetCall(key, result, IF call.ttl = 0 THEN getTTLs.DEFAULT ELSE call.ttl)>>
    ELSE <<>>

\* the tap of GraphQLCacheInterceptor.intercept on the handler's result
graphqlTapCalls(call, route, key, data) ==
    IF route = "miss" /\ data # Null
    THEN <<SetCall(key, data, getTTLForQuery(call.fieldName))>>
    ELSE <<>>

\* A call of set, delete or deletePattern made by a tap.  Its Redis command goes out
\* when the call starts (callSend); the call goes on once Redis has answered or the
\* command has failed (callFinish).  Without a connection there is nothing to wait
\* for and the call runs through at once.
callSend(c, call, t, up) ==
    IF ~c.isConnected THEN [redis |-> "skipped", c |-> c]
    ELSE IF ~up THEN [redis |-> "failed", c |-> c]
    ELSE [redis |-> "ok",
          c |-> [c EXCEPT !.redis =
                   IF call.op = "set"
                   THEN RedisSetex(@, prefixKey(call.key),
                                   IF call.ttl = 0 THEN DEFAULT_TTL ELSE call.ttl,
                                   JsonStringify(call.value), t)
                   ELSE IF call.op = "delete" THEN MapDelete(@, {prefixKey(call.key)})
                   ELSE MapDelete(@, RedisKeys(@, prefixKey(call.key), t))]]

callFinish(c, call, redis, t) ==
    IF call.op = "set"
    THEN [c EXCEPT !.memoryCache =
            MapSet(@, call.key, [data |-> call.value, timestamp |-> t,
                                 ttl |-> IF call.ttl = 0 THEN DEFAULT_TTL ELSE call.ttl])]
    ELSE IF redis = "failed" THEN c
    ELSE IF call.op = "delete" THEN [c EXCEPT !.memoryCache = MapDelete(@, {call.key})]
    ELSE [c EXCEPT !.memoryCache =
            MapDelete(@, {key \in DOMAIN @ : matchesPattern(key, call.key)})]

\* the tap runs until it waits for Redis: the calls still to finish, and how the
\* command of the first of them went
Waiting(pending, sent) == [c |-> sent.c, pending |-> pending, redis |-> sent.redis]

RECURSIVE runTap(_, _, _, _)
runTap(c, pending, t, up) ==
    IF pending = <<>> THEN [c |-> c, pending |-> <<>>, redis |-> "none"]
    ELSE IF ~c.isConnected
         THEN runTap(callFinish(c, Head(pending), "skipped", t), Tail(pending), t, up)
    ELSE Waiting(pending, callSend(c, Head(pending), t, up))

-----------------------------------------------------------------------------
(* The throttler tiers.  The policies are those of config/rate-limit.config.ts. *)
(* The guard that applies them, guards/gql-throttler.guard.ts, is modelled as  *)
(* the specification describes the limiter: check(scopeKey, policy) answers    *)
(* Allow or Reject(retryAfterSeconds) from the timestamps of the scope's       *)
(* admitted requests, kept per tier within a sliding window.                   *)

Tier(name, limit, ttl) == [name |-> name, limit |-> limit, ttl |-> ttl]

RateLimitsLoose ==
    [AUTH |-> <<Tier("short", 4, 60000), Tier("medium", 10, 600000)>>,
     LOGIN |-> <<Tier("short", 4, 60000), Tier("medium", 5, 900000),
                 Tier("long", 20, 3600000)>>]

\* RateLimits.AUTH and RateLimits.LOGIN
RateLimits ==
    [AUTH |-> <<Tier("short", 3, 60000), Tier("medium", 10, 600000)>>,
     LOGIN |-> <<Tier("short", 3, 60000), Tier("medium", 5, 900000),
                 Tier("long", 20, 3600000)>>]

\* the timestamps of a scope under a tier that are still within the tier's window
TierWindow(hits, scopeKey, tier, t) ==
    RecentRequests(MapGet(hits, <<scopeKey, tier.name>>, <<>>), t, tier.ttl)

\* seconds until the oldest timestamp of a full window leaves it
retryAfterSeconds(window, tier, t) == (Head(window) + tier.ttl - t + 999) \div 1000

\* the first tier of the policy, in order, whose window is full; 0 when none is
RECURSIVE FullTier(_, _, _, _, _)
FullTier(hits, scopeKey, policy, t, k) ==
    IF k > Len(policy) THEN 0
    ELSE IF Len(TierWindow(hits, scopeKey, policy[k], t)) >= policy[k].limit THEN k
    ELSE FullTier(hits, scopeKey, policy, t, k + 1)

\* an admitted request is recorded under every tier
RECURSIVE RecordHit(_, _, _, _, _)
RecordHit(hits, scopeKey, policy, t, k) ==
    IF k > Len(policy) THEN hits
    ELSE RecordHit(MapSet(hits, <<scopeKey, policy[k].name>>,
                          Append(TierWindow(hits, scopeKey, policy[k], t), t)),
                   scopeKey, policy, t, k + 1)

Checked(hits, scopeKey, policy, t, full) ==
    IF full = 0
    THEN [allowed |-> TRUE, retryAfter |-> 0, tier |-> "none",
          hits |-> RecordHit(hits, scopeKey, policy, t, 1)]
    ELSE [allowed |-> FALSE, tier |-> policy[full].name,
          retryAfter |-> retryAfterSeconds(TierWindow(hits, scopeKey, policy[full], t),
                                           policy[full], t),
          hits |-> hits]

\* check(scopeKey, policy) at time t
check(hits, scopeKey, policy, t) ==
    Checked(hits, scopeKey, policy, t, FullTier(hits, scopeKey, policy, t, 1))

-----------------------------------------------------------------------------
(* SecurityMonitoringMiddleware (middleware/security-monitoring.middleware.ts): *)
(* the event buffer.  Timestamps are milliseconds.                              *)

maxEvents == 10000
EVENT_RETENTION_MS == 86400000
EVENT_SWEEP_MS == 300000

SecurityEvent(type, ip, userAgent, endpoint, timestamp, details, severity) ==
    [type |-> type, ip |-> ip, userAgent |-> userAgent, endpoint |-> endpoint,
     timestamp |-> timestamp, details |-> details, severity |-> severity]

\* splice(0, length - maxEvents) on a buffer longer than maxEvents
Spliced(events) ==
    IF Len(events) > maxEvents
    THEN SubSeq(events, Len(events) - maxEvents + 1, Len(events))
    ELSE events

\* a buffer that drops the newest events when it is full
logSecurityEventKeepOldest(events, event) ==
    IF Len(events) >= maxEvents THEN events ELSE Append(events, event)

\* logSecurityEvent(event): the buffer afterwards
logSecurityEvent(events, event) == Spliced(Append(events, event))

\* cleanupOldEvents() at time t
cleanupOldEvents(events, t) ==
    SelectSeq(events, LAMBDA event : event.timestamp > t - EVENT_RETENTION_MS)

\* ---- getSecurityStats: the counts are properties of object literals, so a key that
\* Object.prototype defines is found there before it is an own property
S_proto == <<"_","_","p","r","o","t","o","_","_">>
S_constructor == <<"c","o","n","s","t","r","u","c","t","o","r">>

ObjectPrototypeNames ==
    {S_proto, S_constructor, <<"t","o","S","t","r","i","n","g">>, <<"v","a","l","u","e","O","f">>, <<"h","a","s","O","w","n","P","r","o","p","e","r","t","y">>}

\* a property value: a number, or the string that + 1 makes of a value that is none
Count(n) == [t |-> "number", n |-> n]
Concatenated == [t |-> "string", n |-> 0]

\* (value || 0) + 1 for an own property
PlusOne(value) == IF value.t = "number" THEN Count(value.n + 1) ELSE Concatenated

\* obj[key] = (obj[key] || 0) + 1 for a key Object.prototype does not define
CountUp(obj, key) ==
    IF key \in DOMAIN obj THEN [obj EXCEPT ![key] = PlusOne(@)] ELSE obj @@ (key :> Count(1))

\* obj[key] = (obj[key] || 0) + 1 for a key that comes with the request: a value
\* inherited from Object.prototype is truthy and + 1 makes a string of it; the
\* assignment to __proto__ runs the setter, which ignores a string
CountUpName(obj, key) ==
    IF key \in DOMAIN obj \/ key \notin ObjectPrototypeNames THEN CountUp(obj, key)
    ELSE IF key = S_proto THEN obj
    ELSE obj @@ (key :> Concatenated)

RECURSIVE Tally(_, _)
Tally(keys, obj) == IF keys = <<>> THEN obj ELSE Tally(Tail(keys), CountUp(obj, Head(keys)))

RECURSIVE TallyNames(_, _)
TallyNames(keys, obj) ==
    IF keys = <<>> THEN obj ELSE TallyNames(Tail(keys), CountUpName(obj, Head(keys)))

bucketSize == 3600000

\* Math.floor(timestamp / bucketSize) * bucketSize
Bucket(timestamp) == (timestamp \div bucketSize) * bucketSize

RECURSIVE Ascending(_)
Ascending(numbers) ==
    IF numbers = {} THEN <<>>
    ELSE <<CHOOSE m \in numbers : \A n \in numbers : m <= n>>
         \o Ascending(numbers \ {CHOOSE m \in numbers : \A n \in numbers : m <= n})

\* the events of one bucket, in the order of the buffer
InBucket(events, bucket) == SelectSeq(events, LAMBDA event : Bucket(event.timestamp) = bucket)

TypesOf(events) == [i \in 1..Len(events) |-> events[i].type]

\* generateTimeline(events): the buckets by ascending timestamp
Timeline(events, buckets) ==
    [i \in 1..Len(buckets) |->
        [timestamp |-> buckets[i], count |-> Len(InBucket(events, buckets[i])),
         types |-> Tally(TypesOf(InBucket(events, buckets[i])), EmptyMap)]]

generateTimeline(events) ==
    Timeline(events, Ascending({Bucket(events[i].timestamp) : i \in 1..Len(events)}))

Stats(recentEvents) ==
    [total |-> Len(recentEvents),
     byType |-> Tally(TypesOf(recentEvents), EmptyMap),
     bySeverity |-> Tally([i \in 1..Len(recentEvents) |-> recentEvents[i].severity], EmptyMap),
     topIPs |-> TallyNames([i \in 1..Len(recentEvents) |-> recentEvents[i].ip], EmptyMap),
     topEndpoints |-> TallyNames([i \in 1..Len(recentEvents) |-> recentEvents[i].endpoint],
                                 EmptyMap),
     timeline |-> generateTimeline(recentEvents)]

\* getSecurityStats(timeRange) at time t
getSecurityStats(events, timeRange, t) ==
    Stats(SelectSeq(events, LAMBDA event : event.timestamp > t - timeRange))

-----------------------------------------------------------------------------
(* The guard as it runs: requests, timers, the cleanup interval, the admin calls *)

S_IP1 == <<"1","0",".","0",".","0",".","1">>
S_IP2 == <<"1","0",".","0",".","0",".","2">>
S_IP0 == <<"0",".","0",".","0",".","0">>
S_Forwarded2 == <<"1","0",".","0",".","0",".","2",","," ","1","0",".","0",".","0",".","9">>
S_Mozilla == <<"M","o","z","i","l","l","a","/","5",".","0"," ","(","X","1","1",")">>
S_Curl == <<"c","u","r","l","/","7",".","8","8",".","1">>
S_Googlebot == <<"G","o","o","g","l","e","b","o","t","/","2",".","1">>
S_GET == <<"G","E","T">>
S_graphql == <<"/","g","r","a","p","h","q","l">>

NoHeaders ==
    [xForwardedFor |-> <<>>, xRealIP |-> <<>>, cfConnectingIP |-> <<>>,
     remoteAddress |-> <<>>, ip |-> <<>>, userAgent |-> <<>>,
     method |-> S_GET, path |-> S_graphql, url |-> S_graphql, disableDdos |-> FALSE]

\* a browser on the transport address 10.0.0.1
BrowserRequest == [NoHeaders EXCEPT !.remoteAddress = S_IP1, !.userAgent = S_Mozilla]

\* the requests the environment sends
DdosRequests ==
    { BrowserRequest,
      [NoHeaders EXCEPT !.xForwardedFor = S_Forwarded2, !.remoteAddress = S_IP1,
                        !.userAgent = S_Googlebot],
      [NoHeaders EXCEPT !.xRealIP = S_IP2, !.userAgent = S_Curl],
      [NoHeaders EXCEPT !.cfConnectingIP = S_IP1],
      [BrowserRequest EXCEPT !.disableDdos = TRUE] }

AdminIPs == {S_IP1}

MaxRequests == 2
MaxTicks == 1
TimeSteps == {settleDelay, cleanupInterval}

\* the guard's fields as one value
Guard ==
    [ipConnectionCount |-> ipConnectionCount, ipRequestHistory |-> ipRequestHistory,
     suspiciousIPs |-> suspiciousIPs, blacklistedIPs |-> blacklistedIPs,
     signatures |-> signatures, settleTimers |-> settleTimers]

\* the fields of the guard are those of g
SetGuardNow(g) ==
    /\ ipConnectionCount = g.ipConnectionCount
    /\ ipRequestHistory = g.ipRequestHistory
    /\ suspiciousIPs = g.suspiciousIPs
    /\ blacklistedIPs = g.blacklistedIPs
    /\ signatures = g.signatures
    /\ settleTimers = g.settleTimers

SetGuard(g) ==
    /\ ipConnectionCount' = g.ipConnectionCount
    /\ ipRequestHistory' = g.ipRequestHistory
    /\ suspiciousIPs' = g.suspiciousIPs
    /\ blacklistedIPs' = g.blacklistedIPs
    /\ signatures' = g.signatures
    /\ settleTimers' = g.settleTimers

\* the constructor
NewGuard ==
    [ipConnectionCount |-> EmptyMap, ipRequestHistory |-> EmptyMap,
     suspiciousIPs |-> {}, blacklistedIPs |-> {S_IP0},
     signatures |-> EmptyMap, settleTimers |-> <<>>]

\* A run may open with a burst: WarmBursts requests like BrowserRequest, back to back,
\* before anything else happens: none, or as many as leave 10.0.0.1 one connection
\* short of the maximum.
WarmBursts == {0, maxConcurrentConnections - 1}

NoAdmission ==
    [clientIP |-> <<>>, disabled |-> FALSE, blacklisted |-> FALSE, connections |-> 0,
     connectionsAfter |-> 0, allowed |-> TRUE, reason |-> "none", rejections |-> 0]

\* the guard as its constructor leaves it
DdosFresh ==
    /\ now = 0
    /\ ipConnectionCount = NewGuard.ipConnectionCount
    /\ ipRequestHistory = NewGuard.ipRequestHistory
    /\ suspiciousIPs = NewGuard.suspiciousIPs
    /\ blacklistedIPs = NewGuard.blacklistedIPs
    /\ signatures = NewGuard.signatures
    /\ settleTimers = NewGuard.settleTimers
    /\ nextCleanup = cleanupInterval
    /\ admitted = NoAdmission

\* the guard when no request is sent to it
DdosIdle ==
    /\ DdosFresh
    /\ warmLeft = 0
    /\ requestsLeft = 0
    /\ ticksLeft = 0

\* the inspection of a request: the request, what canActivate answered, and the Error
\* its catch block swallowed
NoInspection ==
    [done |-> FALSE, request |-> 0, allowed |-> TRUE, error |-> "", location |-> <<>>]

WafIdle ==
    /\ lastIndex = FreshLastIndex
    /\ inspected = NoInspection

-----------------------------------------------------------------------------
(* Requests the WAF sees *)

S_xssPayload == <<"<","s","c","r","i","p","t",">","a","l","e","r","t","(","1",")","<","/","s","c","r","i","p","t",">">>
S_sqlPayload == <<"'"," ","O","R"," ","'","1","'","=","'","1">>
S_encodedQuote == <<"a","a","a","a","a","a","a","a","%","2","5","2","7">>
S_quoted == <<"a","a","a","a","a","a","a","a","a","a","'">>
S_me == <<"{"," ","m","e"," ","}">>
S_browser == <<"M","o","z","i","l","l","a","/","5",".","0">>
S_userAgent == <<"u","s","e","r","-","a","g","e","n","t">>
S_requestId == <<"X","-","R","e","q","u","e","s","t","-","I","d">>
S_r1 == <<"r","-","1">>
S_queryKey == <<"q","u","e","r","y">>
S_q == <<"q">>
S_exe == <<"s","e","t","u","p",".","E","X","E">>
S_png == <<"p","h","o","t","o",".","p","n","g">>
S_large == <<"2","0","0","0","0","0","0">>
S_small == <<"5","1","2">>

Header(name, value) == [name |-> name, value |-> value]
Field(key, value) == [key |-> key, value |-> value]
File(originalname, size) == [originalname |-> originalname, size |-> size]

\* a GET with no body, no query string and no route parameters
PlainGet ==
    [disableWaf |-> FALSE, body |-> None, query |-> Obj(<<>>), params |-> Obj(<<>>),
     headers |-> <<Header(S_userAgent, S_browser)>>, files |-> <<>>]

WithUserAgent(value) == [PlainGet EXCEPT !.headers = <<Header(S_userAgent, value)>>]

WafRequests ==
    << \* 1: a GraphQL call with nothing to object to
       [PlainGet EXCEPT !.body = Obj(<<Field(S_queryKey, Str(S_me))>>),
                        !.headers = <<Header(S_userAgent, S_browser),
                                      Header(S_requestId, S_r1),
                                      Header(S_contentLength, S_small)>>],
       \* 2: the script tag as the User-Agent of a plain GET
       WithUserAgent(S_xssPayload),
       \* 3: the script tag as the query parameter q
       [PlainGet EXCEPT !.query = Obj(<<Field(S_q, Str(S_xssPayload))>>)],
       \* 4: the tautology as the field "" of a JSON body: {"": "' OR '1'='1"}
       [PlainGet EXCEPT !.body = Obj(<<Field(<<>>, Str(S_sqlPayload))>>)],
       \* 5: the tautology as the field q of a JSON body
       [PlainGet EXCEPT !.body = Obj(<<Field(S_q, Str(S_sqlPayload))>>)],
       \* 6: a User-Agent ending in a doubly encoded quote
       WithUserAgent(S_encodedQuote),
       \* 7: a User-Agent ending in a quote
       WithUserAgent(S_quoted),
       \* 8: the script tag on a route marked @DisableWaf()
       [WithUserAgent(S_xssPayload) EXCEPT !.disableWaf = TRUE],
       \* 9: an executable uploaded after a picture
       [PlainGet EXCEPT !.files = <<File(S_png, maxFileSize), File(S_exe, 1024)>>],
       \* 10: a body announced as larger than the limit
       [PlainGet EXCEPT !.headers = <<Header(S_userAgent, S_browser),
                                      Header(S_contentLength, S_large)>>] >>

\* the cache when nothing is asked of it
NoCacheOp == [op |-> "none", key |-> <<>>, value |-> Null, at |-> 0, ok |-> TRUE]

CacheFresh ==
    /\ redisStore = NewCache.redis
    /\ memoryCache = NewCache.memoryCache
    /\ isConnected = NewCache.isConnected
    /\ redisUp = FALSE
    /\ nextSweep = CLEANUP_INTERVAL_MS
    /\ cacheOp = NoCacheOp
    /\ lastSet = EmptyMap
    /\ invalidated = {}

CacheIdle ==
    /\ CacheFresh
    /\ cacheOpsLeft = 0
    /\ cacheTicksLeft = 0

\* the calls the interceptors see.  getTask is the handler of
\* @Cacheable({ key: 'worker:task:{{0}}', ttl: 60 }), cancelTask that of
\* @CacheInvalidate({ keys: ['worker:task:{{0}}'], patterns: ['worker:tasks:*'] }),
\* with the key prefixes shortened to t: and ts:
S_taskTemplate == <<"t",":","{","{","0","}","}">>
S_tasksStar == <<"t","s",":","*">>
S_one == <<"1">>
S_WorkerClient == <<"W">>
S_getTask == <<"g">>
S_cancelTask == <<"c">>
S_getStats == <<"s">>
S_createPayment == <<"p">>
S_argsHash == <<"c","4">>
S_queryHash == <<"9","f">>
S_login == <<"l","o","g","i","n">>

NoInvalidation == [on |-> FALSE, keys |-> <<>>, patterns |-> <<>>, condition |-> "none"]

MethodCall(methodName, keyTemplate, ttl, condition, invalidate) ==
    [via |-> "CacheInterceptor", className |-> S_WorkerClient, methodName |-> methodName,
     args |-> <<S_one>>, argsHash |-> S_argsHash, keyTemplate |-> keyTemplate, ttl |-> ttl,
     condition |-> condition, invalidate |-> invalidate,
     operation |-> "none", fieldName |-> <<>>, noCache |-> FALSE, queryHash |-> <<>>]

GraphQLCall(operation, fieldName, noCache) ==
    [via |-> "GraphQLCacheInterceptor", className |-> <<>>, methodName |-> <<>>,
     args |-> <<S_one>>, argsHash |-> <<>>, keyTemplate |-> NoTemplate, ttl |-> 0,
     condition |-> "none", invalidate |-> NoInvalidation,
     operation |-> operation, fieldName |-> fieldName, noCache |-> noCache,
     queryHash |-> S_queryHash]

InterceptCalls ==
    << \* 1: a cacheable method with a key template and a ttl
       MethodCall(S_getTask, StringTemplate(S_taskTemplate), TASK_CACHE_TTL, "none",
                  NoInvalidation),
       \* 2: a method that invalidates a key and a pattern
       MethodCall(S_cancelTask, NoTemplate, 0, "none",
                  [on |-> TRUE, keys |-> <<StringTemplate(S_taskTemplate)>>,
                   patterns |-> <<StringTemplate(S_tasksStar)>>, condition |-> "none"]),
       \* 3: a cacheable method without key and ttl
       MethodCall(S_getStats, NoTemplate, 0, "met", NoInvalidation),
       \* 4: a method under @NoCache()
       MethodCall(S_createPayment, NoTemplate, 0, "unmet", NoInvalidation),
       \* 5: a GraphQL query
       GraphQLCall("query", S_userWord, FALSE),
       \* 6: a GraphQL mutation
       GraphQLCall("mutation", S_login, FALSE),
       \* 7: a GraphQL query with the noCache directive
       GraphQLCall("query", S_userWord, TRUE) >>

\* what the external handler may answer
HandlerResults == {V1, V2, Null}

\* what a caller receives when the handler throws: the observable errors
Thrown == [t |-> "error", s |-> <<>>]

MaxCallers == 2

\* a caller: where its call of intercept stands (idle, handling: next.handle() runs,
\* tapping: the tap waits for Redis, done), the call, its route and key, the calls the
\* tap has still to finish and how the Redis command of the first went, what the
\* caller received, the callers it found computing the same call when it came, and
\* the callers whose handler had not answered yet when its own handler answered
NoCaller ==
    [pc |-> "idle", call |-> 0, route |-> "none", key |-> <<>>, pending |-> <<>>,
     redis |-> "none", received |-> FALSE, result |-> Null, beside |-> {},
     unanswered |-> {}]

InterceptorFresh ==
    /\ callers = [n \in 1..MaxCallers |-> NoCaller]
    /\ handlerCalls = [k \in 1..Len(InterceptCalls) |-> 0]

InterceptorIdle == InterceptorFresh

\* the scopes and policies the limiter is asked about: the short tier of
\* RateLimits.AUTH alone (limit 3, window 60 s), and RateLimits.LOGIN
ThrottlePolicies == [SHORT |-> <<RateLimits.AUTH[1]>>, LOGIN |-> RateLimits.LOGIN]

ThrottleChecks ==
    << [scope |-> <<"1">>, policy |-> "SHORT"],
       [scope |-> <<"2">>, policy |-> "SHORT"],
       [scope |-> <<"1">>, policy |-> "LOGIN"] >>

MaxChecks == 6
MaxThrottleTicks == 2
ThrottleSteps == {30000}

ThrottlerFresh ==
    /\ throttleHits = EmptyMap
    /\ throttleLog = <<>>

ThrottlerIdle ==
    /\ ThrottlerFresh
    /\ checksLeft = 0
    /\ throttleTicksLeft = 0


-----------------------------------------------------------------------------
(* The way of a request through the gateway: SecurityMonitoringMiddleware.use,  *)
(* RateLimitingMiddleware.use (SecurityModule.configure applies them to every   *)
(* route, before any guard), the guards WafGuard and DdosProtectionGuard, the   *)
(* route handler, and the response written through the res.send and res.json    *)
(* that SecurityMonitoringMiddleware.use has put in place.  Nest's exception    *)
(* filter answers an HttpException with res.status(status).json(body); Express' *)
(* res.json serialises and calls this.send, and its res.send hands an object to *)
(* this.json.                                                                   *)

S_Unknown == <<"U","n","k","n","o","w","n">>

\* knownMaliciousPatterns: the expressions that end in $ and the others
maliciousSuffixes == << <<".","p","h","p">>,
                     <<".","e","n","v">>,
                     <<"c","o","n","f","i","g",".","j","s","o","n">>,
                     <<"a","d","m","i","n",".","p","h","p">> >>

maliciousParts == << <<"w","p","-","a","d","m","i","n">>,
                  <<"w","p","-","l","o","g","i","n">>,
                  <<"p","h","p","m","y","a","d","m","i","n">>,
                  <<".","g","i","t","/">>,
                  <<".","s","v","n","/">> >>

suspiciousUserAgents == << <<"s","q","l","m","a","p">>,
                        <<"n","i","k","t","o">>,
                        <<"n","m","a","p">>,
                        <<"m","a","s","s","c","a","n">>,
                        <<"z","a","p">>,
                        <<"b","u","r","p">>,
                        <<"m","e","t","a","s","p","l","o","i","t">>,
                        <<"w","3","a","f">>,
                        <<"a","c","u","n","e","t","i","x">>,
                        <<"n","e","t","s","p","a","r","k","e","r">>,
                        <<"a","p","p","s","c","a","n">>,
                        <<"v","e","r","a","c","o","d","e">>,
                        <<"c","h","e","c","k","m","a","r","x">> >>

usualMethods == { <<"G","E","T">>, <<"P","O","S","T">>, <<"P","U","T">>, <<"D","E","L","E","T","E">>, <<"P","A","T","C","H">>, <<"O","P","T","I","O","N","S">>, <<"H","E","A","D">> }

maxUrlLength == 2048

\* /suffix$/i.test(s) for a literal suffix
EndsWithI(s, suffix) ==
    Len(s) >= Len(suffix) /\ OccursAtI(s, suffix, Len(s) - Len(suffix) + 1)

\* SecurityMonitoringMiddleware.getClientIP
monitoringClientIP(request) ==
    IF Trim(BeforeComma(request.xForwardedFor)) # <<>>
    THEN Trim(BeforeComma(request.xForwardedFor))
    ELSE IF request.xRealIP # <<>> THEN request.xRealIP
    ELSE IF request.cfConnectingIP # <<>> THEN request.cfConnectingIP
    ELSE IF request.remoteAddress # <<>> THEN request.remoteAddress
    ELSE S_unknown

\* what the overridden res.send and res.json know of the request
Context(request) ==
    [clientIP |-> monitoringClientIP(request),
     userAgent |-> IF request.userAgent # <<>> THEN request.userAgent ELSE S_Unknown,
     path |-> request.path]

\* one event if the condition holds, none otherwise
When(condition, event) == IF condition THEN <<event>> ELSE <<>>

\* checkSuspiciousActivity(req, clientIP, userAgent): the events it logs, in order
checkSuspiciousActivity(request, clientIP, userAgent, t) ==
    When((\E k \in 1..Len(maliciousSuffixes) : EndsWithI(request.url, maliciousSuffixes[k]))
            \/ SomeContainsI(maliciousParts, request.url),
         SecurityEvent("SUSPICIOUS_ACTIVITY", clientIP, userAgent, request.url, t,
                       [reason |-> "Malicious URL pattern detected"], "HIGH"))
    \o When(SomeContainsI(suspiciousUserAgents, userAgent),
            SecurityEvent("SUSPICIOUS_ACTIVITY", clientIP, userAgent, request.url, t,
                          [reason |-> "Suspicious user agent detected"], "HIGH"))
    \o When(request.method \notin usualMethods,
            SecurityEvent("SUSPICIOUS_ACTIVITY", clientIP, userAgent, request.url, t,
                          [reason |-> "Unusual HTTP method"], "MEDIUM"))
    \o When(Len(request.url) > maxUrlLength,
            SecurityEvent("SUSPICIOUS_ACTIVITY", clientIP, userAgent,
                          Substring0(request.url, 100) \o <<".",".",".">>, t,
                          [reason |-> "Excessively long URL"], "MEDIUM"))

\* the res.send of use, up to its call of the original: the event for the status
sendEvents(ctx, statusCode, t) ==
    IF statusCode = 429
    THEN <<SecurityEvent("RATE_LIMIT", ctx.clientIP, ctx.userAgent, ctx.path, t,
                         [statusCode |-> statusCode], "MEDIUM")>>
    ELSE IF statusCode = 403
    THEN <<SecurityEvent("SUSPICIOUS_ACTIVITY", ctx.clientIP, ctx.userAgent, ctx.path, t,
                         [reason |-> "Access denied"], "HIGH")>>
    ELSE IF statusCode >= 400 /\ statusCode < 500
    THEN <<SecurityEvent("SUSPICIOUS_ACTIVITY", ctx.clientIP, ctx.userAgent, ctx.path, t,
                         [statusCode |-> statusCode], "LOW")>>
    ELSE <<>>

\* body?.error
ErrorOf(body) == IF "error" \in DOMAIN body THEN body.error ELSE ""

\* the res.json of use, up to its call of the original: the event for the body
jsonEvents(ctx, body, t) ==
    IF ErrorOf(body) = "WAF_BLOCKED"
    THEN <<SecurityEvent("WAF_BLOCK", ctx.clientIP, ctx.userAgent, ctx.path, t, body, "HIGH")>>
    ELSE IF ErrorOf(body) = "DDOS_PROTECTION"
    THEN <<SecurityEvent("DDOS_BLOCK", ctx.clientIP, ctx.userAgent, ctx.path, t, body,
                         "CRITICAL")>>
    ELSE <<>>

\* res.json(body): the events logged until the response is written.  The original
\* json calls this.send with the serialised body, which is the res.send of use.
resJson(ctx, statusCode, body, t) == jsonEvents(ctx, body, t) \o sendEvents(ctx, statusCode, t)

\* res.send(body) with an object: the original send hands the object to this.json
resSend(ctx, statusCode, body, t) ==
    sendEvents(ctx, statusCode, t) \o resJson(ctx, statusCode, body, t)

\* the events go to logSecurityEvent one by one
RECURSIVE LogAll(_, _)
LogAll(events, logged) ==
    IF logged = <<>> THEN events
    ELSE LogAll(logSecurityEvent(events, Head(logged)), Tail(logged))

\* ---- RateLimitingMiddleware (middleware/rate-limiting.middleware.ts): the counters
\* of express-rate-limit and express-slow-down, per req.ip, within one window
globalMax == 1000
authMax == 10
delayAfter == 100
maxDelayMs == 5000

delayMs(used) == (used - 100) * 100

authWords == << <<"l","o","g","i","n">>,
             <<"r","e","g","i","s","t","e","r">>,
             <<"s","i","g","n","u","p">>,
             <<"a","u","t","h","e","n","t","i","c","a","t","e">> >>

authPaths == << <<"/","a","u","t","h">>,
             <<"/","l","o","g","i","n">>,
             <<"/","r","e","g","i","s","t","e","r">>,
             <<"/","s","i","g","n","u","p">> >>

\* body?.query as a string, empty when there is none
BodyQuery(body) ==
    IF body.t = "obj" /\ \E i \in 1..Len(body.fields) : body.fields[i].key = S_queryKey
    THEN LET i == CHOOSE i \in 1..Len(body.fields) : body.fields[i].key = S_queryKey
         IN  IF body.fields[i].value.t = "str" THEN body.fields[i].value.s ELSE <<>>
    ELSE <<>>

isAuthEndpoint(request) ==
    IF Includes(ToLowerCase(request.path), S_graphql) /\ BodyQuery(request.body) # <<>>
    THEN \E k \in 1..Len(authWords) : Includes(ToLowerCase(BodyQuery(request.body)), authWords[k])
    ELSE \E k \in 1..Len(authPaths) : Includes(ToLowerCase(request.path), authPaths[k])

NoHits == [slowDown |-> EmptyMap, global |-> EmptyMap, auth |-> EmptyMap]

\* the limiter of a request, its count and its verdict
Limited(hits, request, limiter, used, total) ==
    [hits |-> [hits EXCEPT !.slowDown = MapSet(@, request.ip, used),
                           ![limiter] = MapSet(@, request.ip, total)],
     limiter |-> limiter,
     delay |-> IF used > delayAfter THEN Min(delayMs(used), maxDelayMs) ELSE 0,
     rejected |-> total > (IF limiter = "auth" THEN authMax ELSE globalMax)]

\* RateLimitingMiddleware.use: slow down, then the limiter of the endpoint
rateLimitingUse(hits, request) ==
    Limited(hits, request, IF isAuthEndpoint(request) THEN "auth" ELSE "global",
            MapGet(hits.slowDown, request.ip, 0) + 1,
            MapGet(hits[IF isAuthEndpoint(request) THEN "auth" ELSE "global"],
                   request.ip, 0) + 1)

\* skipSuccessfulRequests of authRateLimit: a response below 400 is not counted
settleHits(hits, request, limiter, statusCode) ==
    IF limiter = "auth" /\ statusCode < 400
    THEN [hits EXCEPT !.auth = MapSet(@, request.ip, MapGet(@, request.ip, 1) - 1)]
    ELSE hits

\* the message of globalRateLimit and authRateLimit
limiterMessage(limiter) ==
    [error |-> IF limiter = "auth" THEN "Too many authentication attempts"
               ELSE "Too many requests from this IP",
     statusCode |-> 429]

\* ---- RateLimitConfig.getConfig().skipIf: the paths the throttler does not limit
skipPaths == <<<<"/","h","e","a","l","t","h">>, <<"/","m","e","t","r","i","c","s">>, <<"/","s","t","a","t","u","s">>, <<"/",".","w","e","l","l","-","k","n","o","w","n","/">>>>

skipIf(request) ==
    \/ \E i \in 1..Len(skipPaths) : Includes(request.url, skipPaths[i])
    \/ Includes(request.url, <<"w","e","b","s","o","c","k","e","t">>)
    \/ Includes(request.url, <<"w","s">>)

\* ---- the guards.  thrown is what the try block caught: the Error of a check, or
\* an exception of another kind raised at the start of the block ("" when none is)

\* a body that repeats what was caught
wafRejectionTelling(thrown, t) ==
    [statusCode |-> 400, message |-> thrown, error |-> "WAF_BLOCKED", timestamp |-> t]

\* the body of the HttpException thrown from the catch of WafGuard.canActivate
wafRejection(thrown, t) ==
    [statusCode |-> 400, message |-> "Request blocked by Web Application Firewall",
     error |-> "WAF_BLOCKED", timestamp |-> t]

\* the body of the HttpException thrown from the catch of DdosProtectionGuard.canActivate
ddosRejection(thrown, t) ==
    [statusCode |-> 429, message |-> "Request blocked by DDoS protection",
     error |-> "DDOS_PROTECTION", timestamp |-> t, retryAfter |-> 60]

\* the body Nest's exception filter gives an exception that is no HttpException
internalError == [statusCode |-> 500, message |-> "Internal server error"]

\* a guard whose catch lets the request pass unless a check has thrown
wafCanActivateFailOpen(request, L, thrown) ==
    IF request.disableWaf \/ thrown # ""
    THEN [allowed |-> TRUE, error |-> "", location |-> <<>>, L |-> L]
    ELSE WafGuardCanActivate(request, L)

\* WafGuard.canActivate when the try block may throw at its start
wafCanActivate(request, L, thrown) ==
    IF request.disableWaf THEN [allowed |-> TRUE, error |-> "", location |-> <<>>, L |-> L]
    ELSE IF thrown # ""
    THEN ThenCheckRequest([error |-> thrown, location |-> <<>>, L |-> L], request)
    ELSE WafGuardCanActivate(request, L)

\* DdosProtectionGuard.canActivate when the try block may throw at its start
ddosCanActivate(g, request, t, thrown) ==
    IF request.disableDdos THEN [allowed |-> TRUE, reason |-> "disabled", g |-> g]
    ELSE IF thrown # "" THEN [allowed |-> FALSE, reason |-> thrown, g |-> g]
    ELSE canActivate(g, request, t)

\* the events recorded outside a request: SecurityService.blacklistIP and
\* removeFromBlacklist
S_System == <<"S","y","s","t","e","m">>
S_ManualBlacklist == <<"M","a","n","u","a","l"," ","b","l","a","c","k","l","i","s","t">>
S_ManualWhitelist == <<"M","a","n","u","a","l"," ","w","h","i","t","e","l","i","s","t">>

ManualEvents(t) ==
    << SecurityEvent("DDOS_BLOCK", <<"1",".","1",".","1",".","1">>, S_System, S_ManualBlacklist,
                     t, [action |-> "blacklist"], "HIGH"),
       SecurityEvent("SUSPICIOUS_ACTIVITY", <<"1",".","1",".","1",".","1">>, S_System,
                     S_ManualWhitelist, t, [action |-> "remove_blacklist"], "MEDIUM"),
       SecurityEvent("DDOS_BLOCK", <<"2",".","2",".","2",".","2">>, S_System, S_ManualBlacklist,
                     t, [action |-> "blacklist"], "HIGH") >>

MaxRecords == 2
MaxEventTicks == 1

\* the buffers the recording starts from: empty, one event short of maxEvents, full;
\* every event recorded one sweep interval less than the retention ago
EarlierEvents(n) ==
    [i \in 1..n |-> SecurityEvent("RATE_LIMIT", <<"3">>, <<"c">>, <<"/">>,
                                   EVENT_SWEEP_MS - EVENT_RETENTION_MS, <<>>, "MEDIUM")]

\* every event recorded so far, oldest first
Recorded == EarlierEvents(recorded.earlier) \o recorded.events

MonitorFresh ==
    /\ securityEvents = <<>>
    /\ recorded = [earlier |-> 0, events |-> <<>>]
    /\ nextEventSweep = EVENT_SWEEP_MS

MonitorIdle ==
    /\ MonitorFresh
    /\ recordsLeft = 0
    /\ eventTicksLeft = 0

\* the requests sent through the gateway: what WafGuard reads of a request and
\* what the middleware and DdosProtectionGuard read of it
Sent(ip, userAgent, method, path, url, body, query) ==
    [PlainGet EXCEPT !.headers = <<Header(S_userAgent, userAgent)>>,
                     !.body = body, !.query = query]
    @@ [NoHeaders EXCEPT !.remoteAddress = ip, !.ip = ip, !.userAgent = userAgent,
                         !.method = method, !.path = path, !.url = url]

S_POST == <<"P","O","S","T">>
S_cacheStats == <<"/","c","a","c","h","e","/","s","t","a","t","s">>
S_cacheEntry == <<"/","c","a","c","h","e","/","e","n","t","r","y">>
S_health == <<"/","h","e","a","l","t","h">>

GatewayRequests ==
    << \* 1: a browser reads the cache statistics
       Sent(S_IP1, S_Mozilla, S_GET, S_cacheStats, S_cacheStats, None, Obj(<<>>)),
       \* 2: the script tag as the query parameter q
       Sent(S_IP1, S_Mozilla, S_GET, S_cacheStats, S_cacheStats \o <<"?","q","=">> \o S_xssPayload,
            None, Obj(<<Field(S_q, Str(S_xssPayload))>>)),
       \* 3: the tautology as the field q of a JSON body
       Sent(S_IP1, S_Mozilla, S_POST, S_cacheEntry, S_cacheEntry,
            Obj(<<Field(S_q, Str(S_sqlPayload))>>), Obj(<<>>)),
       \* 4: the health check
       Sent(S_IP1, S_Mozilla, S_GET, S_health, S_health, None, Obj(<<>>)),
       \* 5: a request from the address the constructor blacklists
       Sent(S_IP0, S_Mozilla, S_GET, S_cacheStats, S_cacheStats, None, Obj(<<>>)),
       \* 6: curl from another address
       Sent(S_IP2, S_Curl, S_GET, S_cacheStats, S_cacheStats, None, Obj(<<>>)) >>

\* where an exception that no check throws is raised: nowhere, at the start of the
\* try block of a guard, or in the guard before its try block
Faults == {"none", "WafGuard try", "WafGuard", "DdosProtectionGuard try", "DdosProtectionGuard"}

GatewayInputs ==
    {[request |-> k, fault |-> "none"] : k \in 1..Len(GatewayRequests)}
        \cup {[request |-> 1, fault |-> f] : f \in Faults}

MaxGatewayRequests == 2

\* the requests 10.0.0.1 has sent in the window before the first of the run
EarlierHits == {0, globalMax - 1}

NoAnswer ==
    [request |-> 0, fault |-> "none", stage |-> "none", statusCode |-> 0, body |-> <<>>,
     handled |-> FALSE, delay |-> 0, thrown |-> "", location |-> <<>>, events |-> <<>>]

GatewayIdle ==
    /\ limiterHits = NoHits
    /\ answered = NoAnswer
    /\ gatewayLeft = 0

-----------------------------------------------------------------------------
(* DdosProtectionGuard at work *)

DdosInit ==
    /\ DdosFresh
    /\ warmLeft \in WarmBursts
    /\ requestsLeft = MaxRequests
    /\ ticksLeft = MaxTicks
    /\ WafIdle
    /\ CacheIdle
    /\ InterceptorIdle
    /\ ThrottlerIdle
    /\ MonitorIdle
    /\ GatewayIdle

\* the steps of the DDoS guard leave the rest of the gateway alone
OnlyDdos == UNCHANGED <<wafVars, cacheVars, interceptorVars, throttlerVars, monitorVars, gatewayVars>>

\* a request reaches the guard
CanActivate(request) ==
    /\ IF warmLeft > 0 THEN request = BrowserRequest ELSE requestsLeft > 0
    /\ LET r == canActivate(Guard, request, now)
           clientIP == getClientIP(request)
       IN  /\ SetGuard(r.g)
           /\ admitted' = [clientIP |-> clientIP,
                           disabled |-> request.disableDdos,
                           blacklisted |-> clientIP \in blacklistedIPs,
                           connections |-> MapGet(ipConnectionCount, clientIP, 0),
                           connectionsAfter |-> MapGet(r.g.ipConnectionCount, clientIP, 0),
                           allowed |-> r.allowed,
                           reason |-> r.reason,
                           rejections |->
                               IF r.allowed \/ r.reason = "blacklisted" THEN 0
                               ELSE IF admitted.clientIP = clientIP
                                    THEN admitted.rejections + 1
                                    ELSE 1]
    /\ warmLeft' = IF warmLeft > 0 THEN warmLeft - 1 ELSE 0
    /\ requestsLeft' = IF warmLeft > 0 THEN requestsLeft ELSE requestsLeft - 1
    /\ UNCHANGED <<now, nextCleanup, ticksLeft>>
    /\ OnlyDdos

\* the timers phase of the event loop: every settle timer that is due runs, oldest
\* first (they share one delay, so they expire in the order they were set)
RECURSIVE runDueTimers(_, _)
runDueTimers(g, t) ==
    IF g.settleTimers # <<>> /\ Head(g.settleTimers).due <= t
    THEN runDueTimers(settleCallback([g EXCEPT !.settleTimers = Tail(@)],
                                     Head(g.settleTimers).ip), t)
    ELSE g

SettleTimers ==
    /\ warmLeft = 0
    /\ settleTimers # <<>>
    /\ Head(settleTimers).due <= now
    /\ SetGuard(runDueTimers(Guard, now))
    /\ UNCHANGED <<now, nextCleanup, admitted, warmLeft, requestsLeft, ticksLeft>>
    /\ OnlyDdos

\* the setInterval callback
Cleanup ==
    /\ warmLeft = 0
    /\ nextCleanup <= now
    /\ SetGuard(cleanup(Guard, now))
    /\ nextCleanup' = now + cleanupInterval
    /\ UNCHANGED <<now, admitted, warmLeft, requestsLeft, ticksLeft>>
    /\ OnlyDdos

BlacklistIP(ip) ==
    /\ warmLeft = 0
    /\ ip \notin blacklistedIPs
    /\ SetGuard(blacklistIP(Guard, ip))
    /\ UNCHANGED <<now, nextCleanup, admitted, warmLeft, requestsLeft, ticksLeft>>
    /\ OnlyDdos

RemoveFromBlacklist(ip) ==
    /\ warmLeft = 0
    /\ ip \in blacklistedIPs
    /\ SetGuard(removeFromBlacklist(Guard, ip))
    /\ UNCHANGED <<now, nextCleanup, admitted, warmLeft, requestsLeft, ticksLeft>>
    /\ OnlyDdos

\* time passes
DdosTick ==
    /\ warmLeft = 0
    /\ ticksLeft > 0
    /\ \E d \in TimeSteps : now' = now + d
    /\ ticksLeft' = ticksLeft - 1
    /\ UNCHANGED <<ddosVars, warmLeft, requestsLeft>>
    /\ OnlyDdos

DdosNext ==
    \/ \E request \in DdosRequests : CanActivate(request)
    \/ SettleTimers
    \/ Cleanup
    \/ \E ip \in AdminIPs : BlacklistIP(ip)
    \/ \E ip \in AdminIPs : RemoveFromBlacklist(ip)
    \/ DdosTick

vars == <<now, ddosVars, warmLeft, requestsLeft, ticksLeft, wafVars, cacheVars,
          interceptorVars, throttlerVars, monitorVars, gatewayVars>>

SpecDdos == DdosInit /\ [][DdosNext]_vars

\* ---- the guard with a clock that does not stop: the environment's clock steps are
\* counted, but time goes on to the moment the oldest pending timer is due, and Node
\* runs a timer that is due

\* the requests of these runs: the browser on 10.0.0.1, and curl on 10.0.0.2
SettleRequests == {r \in DdosRequests : r.xForwardedFor = <<>> /\ r.cfConnectingIP = <<>>
                                         /\ ~r.disableDdos}

ClockReachesTimer ==
    /\ warmLeft = 0
    /\ settleTimers # <<>>
    /\ Head(settleTimers).due > now
    /\ now' = Head(settleTimers).due
    /\ UNCHANGED <<ddosVars, warmLeft, requestsLeft, ticksLeft>>
    /\ OnlyDdos

\* the burst the run opens with arrives whole
WarmRequest == warmLeft > 0 /\ CanActivate(BrowserRequest)

SettleNext ==
    \/ \E request \in SettleRequests : CanActivate(request)
    \/ SettleTimers
    \/ Cleanup
    \/ DdosTick
    \/ ClockReachesTimer

\* what enables SettleTimers
TimerDue == warmLeft = 0 /\ settleTimers # <<>> /\ Head(settleTimers).due <= now

\* The opening burst, the clock and the timers are weakly fair.  SettleTimers changes
\* the state whenever it is enabled, so its fairness is written with TimerDue for
\* ENABLED <<SettleTimers>>_vars.
SpecSettle ==
    /\ DdosInit
    /\ [][SettleNext]_vars
    /\ WF_vars(WarmRequest)
    /\ WF_vars(ClockReachesTimer)
    /\ ([]<>(~TimerDue) \/ []<><<SettleTimers>>_vars)

\* n requests like request reach the guard back to back at time t (those of a
\* blacklisted client leave the guard as it is)
RECURSIVE Burst(_, _, _, _)
Burst(g, request, n, t) ==
    IF n = 0 \/ isBlacklisted(g, getClientIP(request)) THEN g
    ELSE Burst(canActivate(g, request, t).g, request, n - 1, t)

\* The guard after n earlier requests of the browser on 10.0.0.1: bursts of at most
\* maxConcurrentConnections requests, the first at time t and the next a settleDelay
\* after the one before, when the settle timers of that one have run
RECURSIVE Bursts(_, _, _)
Bursts(g, n, t) ==
    IF n = 0 THEN g
    ELSE Bursts(runDueTimers(Burst(g, BrowserRequest, Min(n, maxConcurrentConnections), t),
                             t + settleDelay),
                n - Min(n, maxConcurrentConnections), t + settleDelay)

\* What 10.0.0.1 has sent before the run starts, as <<earlier, open>>: earlier
\* requests in settled bursts (as many as the suspicious threshold, one less than the
\* limit of the window, the limit), and open requests in a burst just sent, whose
\* settle timers are pending (none, or as many as the client may have connections)
EarlierRequests ==
    { <<suspiciousRequestsThreshold, 0>>, <<maxRequestsPerMinute - 1, 0>>,
      <<maxRequestsPerMinute, 0>>, <<maxRequestsPerMinute, maxConcurrentConnections>> }

\* when the run starts: the last of the earlier bursts has settled
RateStart == 3 * settleDelay

MaxRateTicks == 2

\* the clock steps: to the moment the first of the earlier bursts leaves the window,
\* and to the cleanup sweep
RateSteps == {timeWindow - RateStart, cleanupInterval}

\* the guard that has served the earlier requests
RateInit ==
    /\ now = RateStart
    /\ \E e \in EarlierRequests :
          SetGuardNow(Burst(Bursts(NewGuard, e[1], 0), BrowserRequest, e[2], RateStart))
    /\ nextCleanup = cleanupInterval
    /\ admitted = NoAdmission
    /\ warmLeft = 0
    /\ requestsLeft = MaxRequests
    /\ ticksLeft = MaxRateTicks
    /\ WafIdle
    /\ CacheIdle
    /\ InterceptorIdle
    /\ ThrottlerIdle
    /\ MonitorIdle
    /\ GatewayIdle

\* the requests of the run: the browser on 10.0.0.1 with the request of the bursts
\* and with another one, and curl on the address the constructor blacklists
RateRequests ==
    { BrowserRequest,
      [BrowserRequest EXCEPT !.path = S_health, !.url = S_health],
      [NoHeaders EXCEPT !.xRealIP = S_IP0, !.userAgent = S_Curl] }

\* time passes
RateTick ==
    /\ ticksLeft > 0
    /\ \E d \in RateSteps : now' = now + d
    /\ ticksLeft' = ticksLeft - 1
    /\ UNCHANGED <<ddosVars, warmLeft, requestsLeft>>
    /\ OnlyDdos

RateNext ==
    \/ \E request \in RateRequests : CanActivate(request)
    \/ SettleTimers
    \/ Cleanup
    \/ RateTick

SpecRate == RateInit /\ [][RateNext]_vars

\* Many clients at once.  Client k is a browser on the transport address 10.0.1.k
S_crowdPrefix == <<"1","0",".","0",".","1",".">>
DecimalDigits == <<"0","1","2","3","4","5","6","7","8","9">>

ClientIP(k) == S_crowdPrefix \o <<DecimalDigits[(k \div 10) + 1], DecimalDigits[(k % 10) + 1]>>

ClientRequest(k) == [NoHeaders EXCEPT !.remoteAddress = ClientIP(k), !.userAgent = S_Mozilla]

\* the clients k, k - 1, ..., 1 send n requests each, client i at time t - i, one
\* client a millisecond after the other (a blacklisted client is turned away at once)
RECURSIVE Crowd(_, _, _, _)
Crowd(g, k, n, t) ==
    IF k = 0 THEN g
    ELSE IF isBlacklisted(g, ClientIP(k)) THEN Crowd(g, k - 1, n, t)
    ELSE Crowd(Burst(g, ClientRequest(k), n, t - k), k - 1, n, t)

\* the settle timers of the clients k, ..., 1 run, those of client i at time t - i
RECURSIVE SettleCrowd(_, _, _)
SettleCrowd(g, k, t) ==
    IF k = 0 \/ g.settleTimers = <<>> THEN g
    ELSE SettleCrowd(runDueTimers(g, t - k), k - 1, t)

\* when the first requests of the crowd are over
CrowdStart == distributedIPs + 2

\* The guard after busy + 1 clients have sent highActivity requests each, the settle
\* timers of these have run, and the first busy of the clients have sent one request
\* more: busy clients above highActivity, one client at it
CrowdGuard(busy) ==
    Crowd(SettleCrowd(Crowd(NewGuard, busy + 1, highActivity, CrowdStart),
                      busy + 1, CrowdStart + settleDelay),
          busy, 1, CrowdStart + settleDelay)

\* one client less than the heuristic needs, as many as it needs, one more
CrowdSizes == {distributedIPs - 1, distributedIPs, distributedIPs + 1}

CrowdInit ==
    /\ now = CrowdStart + settleDelay
    /\ \E busy \in CrowdSizes : SetGuardNow(CrowdGuard(busy))
    /\ nextCleanup = cleanupInterval
    /\ admitted = NoAdmission
    /\ warmLeft = 0
    /\ requestsLeft = MaxRequests
    /\ ticksLeft = MaxTicks
    /\ WafIdle
    /\ CacheIdle
    /\ InterceptorIdle
    /\ ThrottlerIdle
    /\ MonitorIdle
    /\ GatewayIdle

\* the requests of the run: a request the clients have not sent before, from the
\* first client and from client distributedIPs + 1, which is new, at highActivity or
\* above it with the size of the crowd
CrowdRequests ==
    { [ClientRequest(k) EXCEPT !.path = S_health, !.url = S_health] :
        k \in {1, distributedIPs + 1} }

CrowdNext ==
    \/ \E request \in CrowdRequests : CanActivate(request)
    \/ SettleTimers
    \/ Cleanup
    \/ DdosTick

SpecCrowd == CrowdInit /\ [][CrowdNext]_vars

-----------------------------------------------------------------------------
(* WafGuard at work: one instance, as Nest builds the APP_GUARD, inspecting the *)
(* requests one after another                                                  *)

\* the steps of the WAF leave the rest of the gateway alone
OnlyWaf == UNCHANGED <<now, ddosVars, warmLeft, requestsLeft, ticksLeft, cacheVars,
                       interceptorVars, throttlerVars, monitorVars, gatewayVars>>

WafInit ==
    /\ WafIdle
    /\ DdosIdle
    /\ CacheIdle
    /\ InterceptorIdle
    /\ ThrottlerIdle
    /\ MonitorIdle
    /\ GatewayIdle

\* request k reaches the guard
WafInspect(k) ==
    /\ LET r == WafGuardCanActivate(WafRequests[k], lastIndex) IN
         /\ lastIndex' = r.L
         /\ inspected' = [done |-> TRUE, request |-> k, allowed |-> r.allowed,
                          error |-> r.error, location |-> r.location]
    /\ OnlyWaf

WafNext == \E k \in 1..Len(WafRequests) : WafInspect(k)

SpecWaf == WafInit /\ [][WafNext]_vars

-----------------------------------------------------------------------------
(* CacheService at work: callers, the Redis connection, the sweep timer *)

S_user1 == <<"u","s","e","r",":","1">>
S_user2 == <<"u","s","e","r",":","2">>
S_userStar == <<"u","s","e","r",":","*">>
S_userAny1 == <<"u","s","e","r","?","1">>
S_userDot2 == <<"u","s","e","r",".","2">>

CacheKeys == {S_user1, S_user2}
CachePatterns == {S_userStar, S_userAny1, S_userDot2}

\* the calls of set; ttl 0 is a call without ttl
CacheWrites ==
    << [key |-> S_user1, value |-> V1, ttl |-> QUERY_CACHE_TTL],
       [key |-> S_user1, value |-> V2, ttl |-> TASK_CACHE_TTL],
       [key |-> S_user2, value |-> V1, ttl |-> 0] >>

MaxCacheOps == 3
MaxCacheTicks == 2

Cache == [redis |-> redisStore, memoryCache |-> memoryCache, isConnected |-> isConnected]

SetCache(c) ==
    /\ redisStore' = c.redis
    /\ memoryCache' = c.memoryCache
    /\ isConnected' = c.isConnected

\* the steps of the cache leave the rest of the gateway alone
OnlyCache == UNCHANGED <<ddosVars, warmLeft, requestsLeft, ticksLeft, wafVars,
                         interceptorVars, throttlerVars, monitorVars, gatewayVars>>

\* a call of the service: one of the calls the callers may still make
CacheCall ==
    /\ cacheOpsLeft > 0
    /\ cacheOpsLeft' = cacheOpsLeft - 1
    /\ UNCHANGED <<now, redisUp, nextSweep, cacheTicksLeft>>
    /\ OnlyCache

CacheInit ==
    /\ CacheFresh
    /\ cacheOpsLeft = MaxCacheOps
    /\ cacheTicksLeft = MaxCacheTicks
    /\ DdosIdle
    /\ WafIdle
    /\ InterceptorIdle
    /\ ThrottlerIdle
    /\ MonitorIdle
    /\ GatewayIdle

CacheGet(key) ==
    /\ CacheCall
    /\ SetCache(cacheGet(Cache, key, now, redisUp).c)
    /\ cacheOp' = [op |-> "get", key |-> key, at |-> now, ok |-> TRUE,
                   value |-> cacheGet(Cache, key, now, redisUp).value]
    /\ UNCHANGED <<lastSet, invalidated>>

CacheSet(w) ==
    /\ CacheCall
    /\ SetCache(cacheSet(Cache, w.key, w.value, w.ttl, now, redisUp).c)
    /\ cacheOp' = [op |-> "set", key |-> w.key, value |-> w.value, at |-> now,
                   ok |-> cacheSet(Cache, w.key, w.value, w.ttl, now, redisUp).ok]
    /\ lastSet' = MapSet(lastSet, w.key,
                         [value |-> w.value, at |-> now,
                          ttl |-> IF w.ttl = 0 THEN DEFAULT_TTL ELSE w.ttl])
    /\ invalidated' = invalidated \ {w.key}

CacheDelete(key) ==
    /\ CacheCall
    /\ SetCache(cacheDelete(Cache, key, now, redisUp).c)
    /\ cacheOp' = [op |-> "delete", key |-> key, value |-> Null, at |-> now,
                   ok |-> cacheDelete(Cache, key, now, redisUp).deleted]
    /\ lastSet' = MapDelete(lastSet, {key})
    /\ invalidated' = invalidated \cup {key}

CacheDeletePattern(pattern) ==
    /\ CacheCall
    /\ SetCache(deletePattern(Cache, pattern, now, redisUp).c)
    /\ cacheOp' = [op |-> "deletePattern", key |-> pattern, value |-> Null, at |-> now,
                   ok |-> TRUE]
    /\ lastSet' = MapDelete(lastSet, {k \in DOMAIN lastSet :
                                         GlobMatches(k, pattern) \/ matchesPattern(k, pattern)})
    /\ invalidated' = invalidated \cup {k \in CacheKeys : GlobMatches(k, pattern)}

\* the setInterval of startMemoryCacheCleanup fires
CacheCleanup ==
    /\ nextSweep <= now
    /\ SetCache(cleanupMemoryCache(Cache, now))
    /\ nextSweep' = now + CLEANUP_INTERVAL_MS
    /\ cacheOp' = [op |-> "cleanup", key |-> <<>>, value |-> Null, at |-> now, ok |-> TRUE]
    /\ UNCHANGED <<now, redisUp, lastSet, invalidated, cacheOpsLeft, cacheTicksLeft>>
    /\ OnlyCache

\* the client's 'connect' event
RedisConnect ==
    /\ ~isConnected
    /\ isConnected' = TRUE
    /\ redisUp' = TRUE
    /\ UNCHANGED <<now, redisStore, memoryCache, nextSweep, cacheOp, lastSet, invalidated,
                   cacheOpsLeft, cacheTicksLeft>>
    /\ OnlyCache

\* the server stops answering: commands time out, no event has reached the client yet
RedisStall ==
    /\ isConnected
    /\ redisUp
    /\ redisUp' = FALSE
    /\ UNCHANGED <<now, redisStore, memoryCache, isConnected, nextSweep, cacheOp, lastSet, invalidated,
                   cacheOpsLeft, cacheTicksLeft>>
    /\ OnlyCache

\* the client's 'error' event
RedisError ==
    /\ isConnected
    /\ ~redisUp
    /\ isConnected' = FALSE
    /\ UNCHANGED <<now, redisStore, memoryCache, redisUp, nextSweep, cacheOp, lastSet, invalidated,
                   cacheOpsLeft, cacheTicksLeft>>
    /\ OnlyCache

\* the client's 'close' event
RedisClose ==
    /\ isConnected
    /\ isConnected' = FALSE
    /\ redisUp' = FALSE
    /\ UNCHANGED <<now, redisStore, memoryCache, nextSweep, cacheOp, lastSet, invalidated,
                   cacheOpsLeft, cacheTicksLeft>>
    /\ OnlyCache

\* time passes, up to the next firing of the sweep timer
CacheTick ==
    /\ cacheTicksLeft > 0
    /\ now < nextSweep
    /\ now' = nextSweep
    /\ cacheTicksLeft' = cacheTicksLeft - 1
    /\ UNCHANGED <<redisStore, memoryCache, isConnected, redisUp, nextSweep, cacheOp,
                   lastSet, invalidated, cacheOpsLeft>>
    /\ OnlyCache

CacheNext ==
    \/ \E key \in CacheKeys : CacheGet(key)
    \/ \E k \in 1..Len(CacheWrites) : CacheSet(CacheWrites[k])
    \/ \E key \in CacheKeys : CacheDelete(key)
    \/ \E pattern \in CachePatterns : CacheDeletePattern(pattern)
    \/ CacheCleanup
    \/ RedisConnect
    \/ RedisStall
    \/ RedisError
    \/ RedisClose
    \/ CacheTick

SpecCache == CacheInit /\ [][CacheNext]_vars

-----------------------------------------------------------------------------
(* The interceptors at work: callers whose calls of intercept overlap, the     *)
(* external handler, the taps, the Redis connection                            *)

\* the steps of the interceptors change the cache through the service only
OnlyInterceptor ==
    UNCHANGED <<now, ddosVars, warmLeft, requestsLeft, ticksLeft, wafVars, redisUp,
                nextSweep, cacheOp, lastSet, invalidated, cacheOpsLeft, cacheTicksLeft,
                throttlerVars, monitorVars, gatewayVars>>

InterceptorInit ==
    /\ InterceptorFresh
    /\ DdosIdle
    /\ WafIdle
    /\ CacheIdle
    /\ ThrottlerIdle
    /\ MonitorIdle
    /\ GatewayIdle

\* the callers whose handler runs for call k
Computing(k) == {m \in 1..MaxCallers : callers[m].pc = "handling" /\ callers[m].call = k}

\* caller n's call of intercept has come to its return with r
Intercepted(n, k, r) ==
    /\ SetCache(r.c)
    /\ callers' = [callers EXCEPT ![n] =
         [pc |-> IF r.route = "hit" THEN "done" ELSE "handling",
          call |-> k, route |-> r.route, key |-> r.key, pending |-> <<>>, redis |-> "none",
          received |-> r.route = "hit", result |-> r.value, beside |-> Computing(k),
          unanswered |-> {}]]
    /\ handlerCalls' = [handlerCalls EXCEPT ![k] = IF r.route = "hit" THEN @ ELSE @ + 1]
    /\ OnlyInterceptor

\* caller n calls a method under CacheInterceptor
Intercept(n, k) ==
    /\ callers[n].pc = "idle"
    /\ InterceptCalls[k].via = "CacheInterceptor"
    /\ Intercepted(n, k, intercept(Cache, InterceptCalls[k], now, redisUp))

\* caller n sends a GraphQL operation under GraphQLCacheInterceptor
GraphQLIntercept(n, k) ==
    /\ callers[n].pc = "idle"
    /\ InterceptCalls[k].via = "GraphQLCacheInterceptor"
    /\ Intercepted(n, k, graphqlIntercept(Cache, InterceptCalls[k], now, redisUp))

\* the tap of caller n has run as far as r says
Tapped(n, r) ==
    /\ SetCache(r.c)
    /\ callers' = [callers EXCEPT ![n].pc = IF r.pending = <<>> THEN "done" ELSE "tapping",
                                  ![n].pending = r.pending,
                                  ![n].redis = r.redis]
    /\ UNCHANGED handlerCalls
    /\ OnlyInterceptor

\* the handler of caller n answers and the caller receives the answer
Delivered(n, result, r) ==
    /\ SetCache(r.c)
    /\ callers' = [callers EXCEPT ![n].pc = IF r.pending = <<>> THEN "done" ELSE "tapping",
                                  ![n].pending = r.pending,
                                  ![n].redis = r.redis,
                                  ![n].received = TRUE,
                                  ![n].result = result,
                                  ![n].unanswered =
                                      {m \in 1..MaxCallers \ {n} :
                                          callers[m].pc \in {"idle", "handling"}}]
    /\ UNCHANGED handlerCalls
    /\ OnlyInterceptor

\* the handler of caller n answers: the observable emits the result, the tap starts
HandlerReturn(n, result) ==
    /\ callers[n].pc = "handling"
    /\ Delivered(n, result,
         runTap(Cache,
                IF InterceptCalls[callers[n].call].via = "CacheInterceptor"
                THEN tapCalls(InterceptCalls[callers[n].call], callers[n].route,
                              callers[n].key, result)
                ELSE graphqlTapCalls(InterceptCalls[callers[n].call], callers[n].route,
                                     callers[n].key, result),
                now, redisUp))

\* the handler of caller n throws: the observable errors, and the tap, which has a
\* callback for values only, does not run
HandlerThrow(n) ==
    /\ callers[n].pc = "handling"
    /\ Delivered(n, Thrown, runTap(Cache, <<>>, now, redisUp))

\* Redis has answered the tap of caller n, or its command has failed: the call of the
\* service finishes and the tap goes on
Tap(n) ==
    /\ callers[n].pc = "tapping"
    /\ Tapped(n, runTap(callFinish(Cache, Head(callers[n].pending), callers[n].redis, now),
                        Tail(callers[n].pending), now, redisUp))

InterceptorNext ==
    \/ \E n \in 1..MaxCallers, k \in 1..Len(InterceptCalls) : Intercept(n, k)
    \/ \E n \in 1..MaxCallers, k \in 1..Len(InterceptCalls) : GraphQLIntercept(n, k)
    \/ \E n \in 1..MaxCallers, result \in HandlerResults : HandlerReturn(n, result)
    \/ \E n \in 1..MaxCallers : HandlerThrow(n)
    \/ \E n \in 1..MaxCallers : Tap(n)
    \/ RedisConnect
    \/ RedisStall
    \/ RedisError
    \/ RedisClose

SpecInterceptor == InterceptorInit /\ [][InterceptorNext]_vars

\* the interceptors with a Redis that, once connected, stays connected and answers
SteadyNext ==
    \/ \E n \in 1..MaxCallers, k \in 1..Len(InterceptCalls) : Intercept(n, k)
    \/ \E n \in 1..MaxCallers, k \in 1..Len(InterceptCalls) : GraphQLIntercept(n, k)
    \/ \E n \in 1..MaxCallers, result \in HandlerResults : HandlerReturn(n, result)
    \/ \E n \in 1..MaxCallers : HandlerThrow(n)
    \/ \E n \in 1..MaxCallers : Tap(n)
    \/ RedisConnect

SpecSteady == InterceptorInit /\ [][SteadyNext]_vars

\* ---- the key templates at work: CacheInterceptor derives the key of a call from a
\* string template and the arguments of the call
S_userInputId == <<"u","s","e","r",":","{","{","i","n","p","u","t",".","i","d","}","}">>
S_pairTemplate == <<"p",":","{","{","0","}","}",":","{","{","1","}","}">>

\* JSON.stringify of the input { id: id }
InputJson(id) == <<"{","\"","i","d","\"",":","\"">> \o id \o <<"\"","}">>

KeyTemplates == {S_taskTemplate, S_userInputId, S_pairTemplate}

\* the arguments of a call as generateKey writes them: String(arg) of a string,
\* JSON.stringify(arg) of an object
KeyArgValues == {<<"1">>, <<"2">>, InputJson(<<"1">>), InputJson(<<"2">>)}

MaxArgs == 2

KeyArgs == UNION {[1..len -> KeyArgValues] : len \in 1..MaxArgs}

\* caller n calls a method whose key is the string template, with the arguments args
GenerateCacheKey(n, template, args) ==
    /\ callers[n].pc = "idle"
    /\ callers' = [callers EXCEPT ![n] =
         [pc |-> "derived", template |-> template, args |-> args,
          key |-> generateCacheKey([keyTemplate |-> StringTemplate(template),
                                    args |-> args])]]
    /\ UNCHANGED <<handlerCalls, redisStore, memoryCache, isConnected>>
    /\ OnlyInterceptor

KeysNext ==
    \E n \in 1..MaxCallers, template \in KeyTemplates, args \in KeyArgs :
        GenerateCacheKey(n, template, args)

SpecKeys == InterceptorInit /\ [][KeysNext]_vars

-----------------------------------------------------------------------------
(* The limiter at work *)

OnlyThrottler ==
    UNCHANGED <<ddosVars, warmLeft, requestsLeft, ticksLeft, wafVars, cacheVars,
                interceptorVars, monitorVars, gatewayVars>>

ThrottlerInit ==
    /\ ThrottlerFresh
    /\ checksLeft = MaxChecks
    /\ throttleTicksLeft = MaxThrottleTicks
    /\ DdosIdle
    /\ WafIdle
    /\ CacheIdle
    /\ InterceptorIdle
    /\ MonitorIdle
    /\ GatewayIdle

ThrottleChecked(q, r) ==
    /\ throttleHits' = r.hits
    /\ throttleLog' = Append(throttleLog,
                             [scope |-> q.scope, policy |-> q.policy, at |-> now,
                              allowed |-> r.allowed, retryAfter |-> r.retryAfter,
                              tier |-> r.tier])

\* a request of scope q.scope reaches the limiter under policy q.policy
ThrottleCheck(q) ==
    /\ checksLeft > 0
    /\ checksLeft' = checksLeft - 1
    /\ ThrottleChecked(q, check(throttleHits, <<q.scope, q.policy>>,
                                ThrottlePolicies[q.policy], now))
    /\ UNCHANGED <<now, throttleTicksLeft>>
    /\ OnlyThrottler

\* time passes
ThrottleTick(step) ==
    /\ throttleTicksLeft > 0
    /\ throttleTicksLeft' = throttleTicksLeft - 1
    /\ now' = now + step
    /\ UNCHANGED <<throttleHits, throttleLog, checksLeft>>
    /\ OnlyThrottler

ThrottlerNext ==
    \/ \E k \in 1..Len(ThrottleChecks) : ThrottleCheck(ThrottleChecks[k])
    \/ \E step \in ThrottleSteps : ThrottleTick(step)

SpecThrottler == ThrottlerInit /\ [][ThrottlerNext]_vars

\* ---- the throttler in front of the routes: a request whose skipIf answers true
\* passes without being counted, every other request is checked against the tiers
S_news == <<"/","n","e","w","s">>

SkipUrls ==
    << S_health,
       <<"/","m","e","t","r","i","c","s">>,
       <<"/","s","t","a","t","u","s">>,
       <<"/",".","w","e","l","l","-","k","n","o","w","n","/","j","w","k","s">>,
       <<"/","w","s">>,
       S_graphql,
       S_news,
       S_graphql \o <<"?","n","e","x","t","=">> \o S_health >>

MaxSkipRequests == 4

SkipInit ==
    /\ ThrottlerFresh
    /\ checksLeft = MaxSkipRequests
    /\ throttleTicksLeft = 0
    /\ DdosIdle
    /\ WafIdle
    /\ CacheIdle
    /\ InterceptorIdle
    /\ MonitorIdle
    /\ GatewayIdle

\* what the throttler has done with the request: skipped it, or checked it
Throttled(request, q, skipped, r) ==
    /\ throttleHits' = r.hits
    /\ throttleLog' = Append(throttleLog,
                             [scope |-> q.scope, policy |-> q.policy, at |-> now,
                              allowed |-> r.allowed, retryAfter |-> r.retryAfter,
                              tier |-> r.tier, url |-> request.url, skipped |-> skipped])

\* a request for url from the client of ThrottleChecks[1] reaches the throttler
ThrottledRequest(url) ==
    /\ checksLeft > 0
    /\ checksLeft' = checksLeft - 1
    /\ IF skipIf([NoHeaders EXCEPT !.url = url, !.path = url])
       THEN Throttled([NoHeaders EXCEPT !.url = url, !.path = url], ThrottleChecks[1], TRUE,
                      [allowed |-> TRUE, retryAfter |-> 0, tier |-> "none",
                       hits |-> throttleHits])
       ELSE Throttled([NoHeaders EXCEPT !.url = url, !.path = url], ThrottleChecks[1], FALSE,
                      check(throttleHits, <<ThrottleChecks[1].scope, ThrottleChecks[1].policy>>,
                            ThrottlePolicies[ThrottleChecks[1].policy], now))
    /\ UNCHANGED <<now, throttleTicksLeft>>
    /\ OnlyThrottler

SkipNext == \E k \in 1..Len(SkipUrls) : ThrottledRequest(SkipUrls[k])

SpecSkip == SkipInit /\ [][SkipNext]_vars

-----------------------------------------------------------------------------
(* The event buffer at work: recordings, the cleanup timer, the clock *)

OnlyMonitor ==
    UNCHANGED <<ddosVars, warmLeft, requestsLeft, ticksLeft, wafVars, cacheVars,
                interceptorVars, throttlerVars, gatewayVars>>

MonitorInit ==
    /\ \E n \in {0, maxEvents - 1, maxEvents} :
          /\ securityEvents = EarlierEvents(n)
          /\ recorded = [earlier |-> n, events |-> <<>>]
    /\ nextEventSweep = EVENT_SWEEP_MS
    /\ recordsLeft = MaxRecords
    /\ eventTicksLeft = MaxEventTicks
    /\ DdosIdle
    /\ WafIdle
    /\ CacheIdle
    /\ InterceptorIdle
    /\ ThrottlerIdle
    /\ GatewayIdle

\* a call of logSecurityEvent
LogSecurityEvent(k) ==
    /\ recordsLeft > 0
    /\ recordsLeft' = recordsLeft - 1
    /\ securityEvents' = logSecurityEvent(securityEvents, ManualEvents(now)[k])
    /\ recorded' = [recorded EXCEPT !.events = Append(@, ManualEvents(now)[k])]
    /\ UNCHANGED <<now, nextEventSweep, eventTicksLeft>>
    /\ OnlyMonitor

\* the setInterval of the constructor fires
CleanupOldEvents ==
    /\ nextEventSweep <= now
    /\ securityEvents' = cleanupOldEvents(securityEvents, now)
    /\ nextEventSweep' = now + EVENT_SWEEP_MS
    /\ UNCHANGED <<now, recorded, recordsLeft, eventTicksLeft>>
    /\ OnlyMonitor

\* time passes, up to the next firing of the cleanup timer
EventTick ==
    /\ eventTicksLeft > 0
    /\ now < nextEventSweep
    /\ now' = nextEventSweep
    /\ eventTicksLeft' = eventTicksLeft - 1
    /\ UNCHANGED <<securityEvents, recorded, nextEventSweep, recordsLeft>>
    /\ OnlyMonitor

MonitorNext ==
    \/ \E k \in 1..Len(ManualEvents(now)) : LogSecurityEvent(k)
    \/ CleanupOldEvents
    \/ EventTick

SpecMonitor == MonitorInit /\ [][MonitorNext]_vars

\* ---- the statistics at work: requests pass the middleware, the clock advances, the
\* cleanup timer fires, getSecurityStats is called
S_sqlmap == <<"s","q","l","m","a","p","/","1",".","7">>

StatsRequests ==
    << \* 1: sqlmap from the transport address 10.0.0.1
       [NoHeaders EXCEPT !.remoteAddress = S_IP1, !.userAgent = S_sqlmap],
       \* 2: sqlmap with X-Forwarded-For: __proto__
       [NoHeaders EXCEPT !.remoteAddress = S_IP1, !.userAgent = S_sqlmap,
                         !.xForwardedFor = S_proto],
       \* 3: sqlmap with X-Forwarded-For: constructor
       [NoHeaders EXCEPT !.remoteAddress = S_IP1, !.userAgent = S_sqlmap,
                         !.xForwardedFor = S_constructor],
       \* 4: a browser on 10.0.0.2
       [NoHeaders EXCEPT !.remoteAddress = S_IP2, !.userAgent = S_Mozilla] >>

MaxStatsRequests == 3
MaxStatsTicks == 2
StatsSteps == {EVENT_SWEEP_MS, bucketSize}
TimeRanges == {EVENT_SWEEP_MS, EVENT_RETENTION_MS}

\* the last call of getSecurityStats: its argument, when it was made, the buffer it
\* read and what it returned
NotAsked == [timeRange |-> 0, at |-> 0, buffer |-> <<>>, stats |-> Stats(<<>>)]

StatsInit ==
    /\ securityEvents = <<>>
    /\ recorded = [earlier |-> 0, events |-> <<>>, asked |-> NotAsked]
    /\ nextEventSweep = EVENT_SWEEP_MS
    /\ recordsLeft = MaxStatsRequests
    /\ eventTicksLeft = MaxStatsTicks
    /\ DdosIdle
    /\ WafIdle
    /\ CacheIdle
    /\ InterceptorIdle
    /\ ThrottlerIdle
    /\ GatewayIdle

MonitorLogged(logged) ==
    /\ securityEvents' = LogAll(securityEvents, logged)
    /\ recorded' = [recorded EXCEPT !.events = @ \o logged]

\* SecurityMonitoringMiddleware.use for a request the handler answers with 200
MonitoredRequest(k) ==
    /\ recordsLeft > 0
    /\ recordsLeft' = recordsLeft - 1
    /\ MonitorLogged(checkSuspiciousActivity(StatsRequests[k],
                                             Context(StatsRequests[k]).clientIP,
                                             Context(StatsRequests[k]).userAgent, now)
                     \o resJson(Context(StatsRequests[k]), 200, [data |-> "ok"], now))
    /\ UNCHANGED <<now, nextEventSweep, eventTicksLeft>>
    /\ OnlyMonitor

\* a call of getSecurityStats(timeRange)
GetSecurityStats(timeRange) ==
    /\ recorded' = [recorded EXCEPT !.asked =
                       [timeRange |-> timeRange, at |-> now, buffer |-> securityEvents,
                        stats |-> getSecurityStats(securityEvents, timeRange, now)]]
    /\ UNCHANGED <<now, securityEvents, nextEventSweep, recordsLeft, eventTicksLeft>>
    /\ OnlyMonitor

\* time passes
StatsTick(step) ==
    /\ eventTicksLeft > 0
    /\ eventTicksLeft' = eventTicksLeft - 1
    /\ now' = now + step
    /\ UNCHANGED <<securityEvents, recorded, nextEventSweep, recordsLeft>>
    /\ OnlyMonitor

StatsNext ==
    \/ \E k \in 1..Len(StatsRequests) : MonitoredRequest(k)
    \/ \E timeRange \in TimeRanges : GetSecurityStats(timeRange)
    \/ \E step \in StatsSteps : StatsTick(step)
    \/ CleanupOldEvents

SpecStats == StatsInit /\ [][StatsNext]_vars

-----------------------------------------------------------------------------
(* The gateway at work: requests running from the first middleware to the      *)
(* response                                                                    *)

OnlyGateway ==
    UNCHANGED <<now, nextCleanup, admitted, warmLeft, requestsLeft, ticksLeft, inspected,
                cacheVars, interceptorVars, throttlerVars, nextEventSweep, recordsLeft,
                eventTicksLeft>>

GatewayInit ==
    /\ \E n \in EarlierHits :
          limiterHits = [NoHits EXCEPT !.slowDown = IF n = 0 THEN EmptyMap ELSE S_IP1 :> n,
                                       !.global = IF n = 0 THEN EmptyMap ELSE S_IP1 :> n]
    /\ answered = NoAnswer
    /\ gatewayLeft = MaxGatewayRequests
    /\ MonitorFresh
    /\ recordsLeft = 0
    /\ eventTicksLeft = 0
    /\ DdosIdle
    /\ WafIdle
    /\ CacheIdle
    /\ InterceptorIdle
    /\ ThrottlerIdle

\* the response has gone out and logged the events it causes
Responded(in, stage, statusCode, body, handled, rl, thrown, location, logged) ==
    /\ securityEvents' = LogAll(securityEvents, logged)
    /\ recorded' = [recorded EXCEPT !.events = @ \o logged]
    /\ answered' = [request |-> in.request, fault |-> in.fault, stage |-> stage,
                    statusCode |-> statusCode, body |-> body, handled |-> handled,
                    delay |-> rl.delay, thrown |-> thrown, location |-> location,
                    events |-> logged]

\* a stage ends the request with a response: sent with res.send by the limiter,
\* with res.json by Nest
Answer(in, stage, statusCode, body, handled, rl, L, g, thrown, location) ==
    /\ limiterHits' = settleHits(rl.hits, GatewayRequests[in.request], rl.limiter, statusCode)
    /\ lastIndex' = L
    /\ SetGuard(g)
    /\ Responded(in, stage, statusCode, body, handled, rl, thrown, location,
                 checkSuspiciousActivity(GatewayRequests[in.request],
                                         Context(GatewayRequests[in.request]).clientIP,
                                         Context(GatewayRequests[in.request]).userAgent, now)
                 \o (IF stage = "RateLimitingMiddleware"
                     THEN resSend(Context(GatewayRequests[in.request]), statusCode, body, now)
                     ELSE resJson(Context(GatewayRequests[in.request]), statusCode, body, now)))

\* DdosProtectionGuard has answered with d; the route handler is next
AfterDdos(in, rl, w, d) ==
    IF ~d.allowed
    THEN Answer(in, "DdosProtectionGuard", 429, ddosRejection(d.reason, now), FALSE,
                rl, w.L, d.g, d.reason, <<>>)
    ELSE Answer(in, "handler", 200, [data |-> "ok"], TRUE, rl, w.L, d.g, "", <<>>)

\* WafGuard has answered with w; DdosProtectionGuard is next
AfterWaf(in, request, rl, w) ==
    IF ~w.allowed
    THEN Answer(in, "WafGuard", 400, wafRejection(w.error, now), FALSE,
                rl, w.L, Guard, w.error, w.location)
    ELSE IF in.fault = "DdosProtectionGuard" /\ ~request.disableDdos
    THEN Answer(in, "DdosProtectionGuard", 500, internalError, FALSE,
                rl, w.L, Guard, "TypeError", <<>>)
    ELSE AfterDdos(in, rl, w,
                   ddosCanActivate(Guard, request, now,
                                   IF in.fault = "DdosProtectionGuard try"
                                   THEN "TypeError" ELSE ""))

\* RateLimitingMiddleware.use has answered with rl; WafGuard is next
AfterLimiter(in, request, rl) ==
    IF rl.rejected
    THEN Answer(in, "RateLimitingMiddleware", 429, limiterMessage(rl.limiter), FALSE,
                rl, lastIndex, Guard, "", <<>>)
    ELSE IF in.fault = "WafGuard" /\ ~request.disableWaf
    THEN Answer(in, "WafGuard", 500, internalError, FALSE,
                rl, lastIndex, Guard, "TypeError", <<>>)
    ELSE AfterWaf(in, request, rl,
                  wafCanActivate(request, lastIndex,
                                 IF in.fault = "WafGuard try" THEN "TypeError" ELSE ""))

\* a request runs through the gateway
GatewayRequest(in) ==
    /\ gatewayLeft > 0
    /\ gatewayLeft' = gatewayLeft - 1
    /\ AfterLimiter(in, GatewayRequests[in.request],
                    rateLimitingUse(limiterHits, GatewayRequests[in.request]))
    /\ OnlyGateway

GatewayNext == \E in \in GatewayInputs : GatewayRequest(in)

SpecGateway == GatewayInit /\ [][GatewayNext]_vars

-----------------------------------------------------------------------------
(* Claims about the DDoS guard *)

\* the last step served a request that reached the guard's checks
Served == admitted.reason # "none"

\* C1: every client's activeConnections counter stays within 0..maxConcurrentConnections
\* whatever the order of admissions, settle timers and cleanup sweeps, and an admission
\* that finds the counter at the maximum is rejected and leaves the counter as it was.
C1_ConnectionsWithinBounds ==
    /\ \A ip \in DOMAIN ipConnectionCount :
          /\ ipConnectionCount[ip] >= 0
          /\ ipConnectionCount[ip] <= maxConcurrentConnections
    /\ (Served /\ admitted.reason \notin {"disabled", "blacklisted"}
            /\ admitted.connections >= maxConcurrentConnections)
          => /\ ~admitted.allowed
             /\ admitted.reason = "connections"
             /\ admitted.connectionsAfter = admitted.connections

\* C1 witness: a client at the maximum has just had an admission rejected for it, and
\* its counter stays at the maximum
C1_Witness ==
    /\ admitted.reason = "connections"
    /\ admitted.connections = maxConcurrentConnections
    /\ MapGet(ipConnectionCount, admitted.clientIP, 0) = maxConcurrentConnections

\* C2 as stated: a request of a blacklisted client is rejected, whatever else holds
C2_BlacklistedAlwaysRejected ==
    (Served /\ admitted.blacklisted) => ~admitted.allowed

\* C2 as amended: on a route that has not disabled DDoS protection, a request of a
\* client that is blacklisted when canActivate runs is rejected by the blacklist check,
\* whatever its connection count, request window, user agent or signatures; no client
\* that is not blacklisted is rejected by that check; and only blacklistIP and
\* removeFromBlacklist change the blacklist (requests, timers and sweeps leave it alone).
C2_BlacklistAuthoritative ==
    /\ [](Served =>
            /\ (admitted.blacklisted /\ ~admitted.disabled)
                  => (~admitted.allowed /\ admitted.reason = "blacklisted"
                        /\ admitted.connectionsAfter = admitted.connections)
            /\ admitted.reason = "blacklisted" => admitted.blacklisted)
    /\ [][(\/ requestsLeft' # requestsLeft
           \/ warmLeft' # warmLeft
           \/ nextCleanup' # nextCleanup
           \/ Len(settleTimers') < Len(settleTimers))
             => blacklistedIPs' = blacklistedIPs]_vars

\* C2 witness: a blacklisted client with open connections and a browser's user agent is
\* rejected by the blacklist check
C2_Witness ==
    /\ admitted.reason = "blacklisted"
    /\ admitted.clientIP = S_IP1
    /\ admitted.connections > 0
    /\ admitted.connections < maxConcurrentConnections

\* the strings of a request that the guard scans: keys and values of the body, the
\* query and the route parameters, and the values of the headers it looks at
FieldStrings(v) ==
    IF v.t = "str" THEN {v.s}
    ELSE IF v.t = "obj"
         THEN UNION { {v.fields[k].key} \cup (IF v.fields[k].value.t = "str"
                                               THEN {v.fields[k].value.s} ELSE {})
                      : k \in 1..Len(v.fields) }
         ELSE {}

HeaderStrings(headers) ==
    { headers[k].value : k \in { j \in 1..Len(headers) :
          \/ \E n \in 1..Len(suspiciousHeaders) : headers[j].name = suspiciousHeaders[n]
          \/ IsCustomHeader(headers[j].name) } }

Carries(request, payload) ==
    \E s \in FieldStrings(request.body) \cup FieldStrings(request.query)
              \cup FieldStrings(request.params) \cup HeaderStrings(request.headers) :
        Includes(s, payload)

\* the last request was scanned (its route does not disable the WAF)
Scanned == inspected.done /\ ~WafRequests[inspected.request].disableWaf

\* C3 as stated: whatever was inspected before, a scanned request that carries
\* <script>alert(1)</script> in one of its scanned strings is blocked as an XSS attack
C3_ScriptTagBlockedAsXss ==
    (Scanned /\ Carries(WafRequests[inspected.request], S_xssPayload))
        => (~inspected.allowed /\ inspected.error = "XSS attack")

\* C4 as stated: whatever was inspected before, a scanned request that carries
\* ' OR '1'='1 in a string field of its body, query or route parameters is blocked as
\* an SQL injection
C4_TautologyBlockedAsSqli ==
    (Scanned /\ \E s \in FieldStrings(WafRequests[inspected.request].body)
                         \cup FieldStrings(WafRequests[inspected.request].query)
                         \cup FieldStrings(WafRequests[inspected.request].params) :
                    Includes(s, S_sqlPayload))
        => (~inspected.allowed /\ inspected.error = "SQL injection")

\* what a guard that has inspected nothing answers to request k
FreshAnswer(k) == WafGuardCanActivate(WafRequests[k], FreshLastIndex)

\* C5 as stated: the answer to a request, and the category, do not depend on the
\* requests inspected before it: the guard answers as one that has inspected nothing
C5_Stateless ==
    inspected.done
        => /\ inspected.allowed = FreshAnswer(inspected.request).allowed
           /\ inspected.error = FreshAnswer(inspected.request).error

\* the last call was get(key) and a set of that key is on record, made Age(key)
\* milliseconds before the get and not followed by a set, a delete or a pattern
\* invalidation of it
GotAfterSet == cacheOp.op = "get" /\ cacheOp.key \in DOMAIN lastSet

Age(key) == cacheOp.at - lastSet[key].at

\* C6 as stated: a get issued more than T seconds after the most recent set(key, value,
\* T) returns a miss, and after an expiry sweep no expired entry is left in the memory
\* tier
C6_TtlExpiry ==
    /\ (GotAfterSet /\ Age(cacheOp.key) > lastSet[cacheOp.key].ttl * 1000)
           => cacheOp.value = Null
    /\ cacheOp.op = "cleanup"
           => \A key \in DOMAIN memoryCache : ~Expired(memoryCache[key], cacheOp.at)

\* C7 as stated: a get issued less than T seconds after set(key, v, T), with no set,
\* delete or pattern invalidation of the key in between, returns v, whatever the
\* connection to Redis did in the meantime
C7_RoundTrip ==
    (GotAfterSet /\ Age(cacheOp.key) < lastSet[cacheOp.key].ttl * 1000)
        => cacheOp.value = lastSet[cacheOp.key].value

\* C8 as stated: deletePattern(p) removes from both tiers exactly the keys that match
\* the glob p and leaves every other key as it was
C8_DeletePatternExact ==
    [][(cacheOp'.op = "deletePattern" /\ cacheOpsLeft' < cacheOpsLeft)
         => /\ memoryCache' = MapDelete(memoryCache,
                                  {key \in DOMAIN memoryCache : GlobMatches(key, cacheOp'.key)})
            /\ \A k \in RedisLive(redisStore, now) :
                   IF GlobMatches(k, prefixKey(cacheOp'.key))
                   THEN k \notin RedisLive(redisStore', now)
                   ELSE k \in DOMAIN redisStore' /\ redisStore'[k] = redisStore[k]]_vars

\* C13 as stated: once delete(key) or deletePattern(p) has returned, every later get of
\* the key (resp. of a key matching p) is a miss until the key is set again, whatever
\* the connection to Redis did before, during or after the invalidation
C13_InvalidationReachesBothTiers ==
    (cacheOp.op = "get" /\ cacheOp.key \in invalidated) => cacheOp.value = Null

\* what get(key) must return: the Redis value on a Redis hit, else the memory item
\* that has not expired, else a miss
FallbackValue(key) ==
    IF key \in DOMAIN memoryCache /\ ~Expired(memoryCache[key], now)
    THEN memoryCache[key].data
    ELSE Null

\* C14 as stated: get returns the Redis value on a Redis hit and, whenever Redis
\* misses, is not connected or its read fails, the memory item if it has not expired
C14_GetFallsBack ==
    [][(cacheOp'.op = "get" /\ cacheOpsLeft' < cacheOpsLeft)
         => cacheOp'.value =
              IF isConnected /\ redisUp /\ RedisGet(redisStore, prefixKey(cacheOp'.key), now) # <<>>
              THEN JsonParse(RedisGet(redisStore, prefixKey(cacheOp'.key), now))
              ELSE FallbackValue(cacheOp'.key)]_vars

\* C15: set(key, value, ttl) leaves the entry in the memory tier and returns true,
\* whether Redis is connected, not connected, or its write fails
C15_SetAlwaysWritesFallback ==
    cacheOp.op = "set"
        => /\ cacheOp.ok
           /\ cacheOp.key \in DOMAIN memoryCache
           /\ memoryCache[cacheOp.key].data = cacheOp.value
           /\ memoryCache[cacheOp.key].timestamp = cacheOp.at
           /\ memoryCache[cacheOp.key].ttl = lastSet[cacheOp.key].ttl

\* a set whose Redis write failed
C15_Witness ==
    /\ cacheOp.op = "set"
    /\ isConnected /\ ~redisUp
    /\ prefixKey(cacheOp.key) \notin DOMAIN redisStore
    /\ cacheOp.key \in DOMAIN memoryCache

-----------------------------------------------------------------------------
(* Claims about the cache interceptors *)

\* a call whose result the interceptor caches
CacheEligible(call) ==
    IF call.via = "CacheInterceptor"
    THEN ~call.invalidate.on /\ call.condition # "unmet"
    ELSE call.operation = "query" /\ ~call.noCache

\* C9: when identical cache-eligible requests for a key that is not cached overlap,
\* the handler is invoked once only and all the callers receive the same result: a
\* caller that comes while the handler runs for the same call does not invoke the
\* handler again, and receives what the caller it found computing receives.
C9_SingleFlight ==
    \A a \in 1..MaxCallers : \A b \in callers[a].beside :
        CacheEligible(InterceptCalls[callers[a].call]) =>
            /\ callers[a].route # "miss"
            /\ (callers[a].received /\ callers[b].received /\ callers[b].call = callers[a].call)
                  => callers[a].result = callers[b].result

\* the interceptors when every call is one whose result they cache; Redis connects,
\* stalls and fails as in SpecInterceptor.  The callers are alike.
EligibleCalls == {k \in 1..Len(InterceptCalls) : CacheEligible(InterceptCalls[k])}

\* a new call takes the first caller that is idle
FirstIdle(n) == \A m \in 1..(n - 1) : callers[m].pc # "idle"

EligibleNext ==
    \/ \E n \in 1..MaxCallers, k \in EligibleCalls : FirstIdle(n) /\ Intercept(n, k)
    \/ \E n \in 1..MaxCallers, k \in EligibleCalls : FirstIdle(n) /\ GraphQLIntercept(n, k)
    \/ \E n \in 1..MaxCallers, result \in HandlerResults : HandlerReturn(n, result)
    \/ \E n \in 1..MaxCallers : HandlerThrow(n)
    \/ \E n \in 1..MaxCallers : Tap(n)
    \/ RedisConnect
    \/ RedisStall
    \/ RedisError
    \/ RedisClose

SpecEligible == InterceptorInit /\ [][EligibleNext]_vars

\* the key an eligible call is cached under and the time its entry is to live
DerivedKey(call) ==
    IF call.via = "CacheInterceptor" THEN generateCacheKey(call) ELSE generateGqlCacheKey(call)

OperationTtl(call) ==
    IF call.via = "CacheInterceptor"
    THEN IF call.ttl = 0 THEN DEFAULT_TTL ELSE call.ttl
    ELSE getTTLForQuery(call.fieldName)

\* the values the cache holds under key: what Redis answers and what memory keeps
Held(key) ==
    {JsonParse(redisStore[k].text) :
        k \in {k \in {prefixKey(key)} : isConnected /\ redisUp /\ k \in RedisLive(redisStore, now)}}
    \cup {memoryCache[k].data :
             k \in {k \in {key} : k \in DOMAIN memoryCache /\ ~Expired(memoryCache[k], now)}}

\* caller n's call of intercept returns in this step: a hit is answered from the
\* cache without the handler, a miss invokes the handler
LookedUp(n) ==
    LET call == InterceptCalls[callers'[n].call]
    IN  /\ callers'[n].key = DerivedKey(call)
        /\ IF callers'[n].route = "hit"
           THEN /\ handlerCalls' = handlerCalls
                /\ callers'[n].received
                /\ callers'[n].result # Null
                /\ callers'[n].result \in Held(DerivedKey(call))
           ELSE /\ callers'[n].route = "miss"
                /\ ~callers'[n].received
                /\ handlerCalls' =
                      [handlerCalls EXCEPT ![callers'[n].call] = @ + 1]

\* the entries of result under the key of call, in memory and in Redis
MemoryEntry(call, result) ==
    [data |-> result, timestamp |-> now, ttl |-> OperationTtl(call)]

RedisEntry(call, result) ==
    [text |-> JsonStringify(result), expireAt |-> now + OperationTtl(call) * 1000]

\* the handler of caller n, which had a miss, answers in this step: an error or null
\* leaves the cache as it is, any other result goes to Redis at once when Redis takes
\* the command and to memory once the set has finished
Answered(n) ==
    LET call == InterceptCalls[callers[n].call]
        key == DerivedKey(call)
        result == callers'[n].result
    IN  IF result \in {Null, Thrown}
        THEN /\ callers'[n].pc = "done"
             /\ UNCHANGED <<redisStore, memoryCache>>
        ELSE /\ callers'[n].redis = "ok" =>
                   /\ prefixKey(key) \in DOMAIN redisStore'
                   /\ redisStore'[prefixKey(key)] = RedisEntry(call, result)
             /\ IF callers'[n].pc = "done"
                THEN /\ key \in DOMAIN memoryCache'
                     /\ memoryCache'[key] = MemoryEntry(call, result)
                ELSE /\ callers'[n].pc = "tapping"
                     /\ callers'[n].pending = <<SetCall(key, result, OperationTtl(call))>>

\* the set of caller n's tap finishes in this step
Stored(n) ==
    LET call == InterceptCalls[callers[n].call]
    IN  /\ callers'[n].pc = "done"
        /\ DerivedKey(call) \in DOMAIN memoryCache'
        /\ memoryCache'[DerivedKey(call)] = MemoryEntry(call, callers[n].result)

\* C27: for a cache-eligible operation, a hit returns the cached value and does not
\* invoke the handler; a miss invokes the handler, and its result, when it is neither
\* an error nor null, is stored under the derived key with the time to live of the
\* operation; an error or a null result changes nothing in the cache.
C27_CacheOnMissOnly ==
    [][\A n \in 1..MaxCallers :
          /\ (/\ callers[n].pc = "idle"
              /\ callers'[n].pc # "idle"
              /\ CacheEligible(InterceptCalls[callers'[n].call])) => LookedUp(n)
          /\ (/\ callers[n].pc = "handling"
              /\ callers'[n].pc # "handling"
              /\ callers[n].route = "miss") => Answered(n)
          /\ (/\ callers[n].pc = "tapping"
              /\ callers'[n].pc # "tapping"
              /\ callers[n].route = "miss") => Stored(n)]_vars

\* one caller had a miss and its result went to Redis and to memory, the other had a
\* hit on that entry: the handler ran once
C27_Witness ==
    /\ callers[1].pc = "done" /\ callers[1].route = "miss" /\ callers[1].call = 1
    /\ isConnected /\ redisUp
    /\ prefixKey(DerivedKey(InterceptCalls[1])) \in DOMAIN redisStore
    /\ callers[2].pc = "done" /\ callers[2].route = "hit" /\ callers[2].call = 1
    /\ callers[2].result = callers[1].result
    /\ handlerCalls[1] = 1
    /\ memoryCache[DerivedKey(InterceptCalls[1])].data = callers[1].result

\* the handler of caller n, a call with invalidation, has answered with a result
Mutated(n) ==
    /\ callers[n].route = "invalidate"
    /\ callers[n].received
    /\ callers[n].result # Thrown

\* the keys the invalidation of call k names, one by one or by a pattern
Invalidates(k, key) ==
    LET config == InterceptCalls[k].invalidate
        args == InterceptCalls[k].args
    IN  \/ \E i \in 1..Len(config.keys) : key = generateKey(config.keys[i], args)
        \/ \E i \in 1..Len(config.patterns) :
              GlobMatches(key, generateKey(config.patterns[i], args))

\* the cache holds under caller r's key the result r's handler gave
HoldsResultOf(r) ==
    \/ /\ callers[r].key \in DOMAIN memoryCache
       /\ memoryCache[callers[r].key].data = callers[r].result
    \/ /\ prefixKey(callers[r].key) \in DOMAIN redisStore
       /\ redisStore[prefixKey(callers[r].key)].text = JsonStringify(callers[r].result)

\* caller r had a miss and its handler answered before the handler of caller m did
ComputedBefore(r, m) ==
    /\ callers[r].route = "miss"
    /\ callers[r].received
    /\ callers[r].result \notin {Null, Thrown}
    /\ m \in callers[r].unanswered

\* C28: once the invalidation of a mutation has completed, and no other mutation has
\* run, the cache holds no entry for an invalidated key whose value a handler computed
\* before the mutation took effect, however the reads of the key and the mutation
\* interleave.
C28_NoStaleEntry ==
    \A m \in 1..MaxCallers, r \in 1..MaxCallers :
        (/\ Mutated(m)
         /\ callers[m].pc = "done"
         /\ \A o \in 1..MaxCallers \ {m} : callers[o].route # "invalidate"
         /\ ComputedBefore(r, m)
         /\ Invalidates(callers[m].call, callers[r].key)
         /\ \A o \in 1..MaxCallers \ {r} :
               (callers[o].route = "miss" /\ callers[o].key = callers[r].key)
                  => ComputedBefore(o, m))
        => ~HoldsResultOf(r)

\* C29: when an operation with cache invalidation delivers its result to the caller,
\* the invalidation of all its keys and patterns has completed; and the invalidation
\* runs only after the handler has succeeded: a handler that throws leaves the cache
\* as it is.
C29_InvalidatedBeforeDelivery ==
    /\ [](\A n \in 1..MaxCallers : Mutated(n) => callers[n].pending = <<>>)
    /\ [][\A n \in 1..MaxCallers :
            (/\ callers[n].route = "invalidate"
             /\ callers[n].pc = "handling"
             /\ callers'[n].result = Thrown)
            => UNCHANGED <<redisStore, memoryCache>>]_vars

-----------------------------------------------------------------------------
(* Claims about the limiter *)

\* the requests of the same scope and policy admitted before check i within the 60 s
\* before it
AdmittedBefore(i) ==
    {j \in 1..(i - 1) : /\ throttleLog[j].scope = throttleLog[i].scope
                        /\ throttleLog[j].policy = throttleLog[i].policy
                        /\ throttleLog[j].allowed
                        /\ throttleLog[i].at - throttleLog[j].at < 60000}

-----------------------------------------------------------------------------
(* Claims about the event buffer *)

\* the last n elements of s
Last(s, n) == SubSeq(s, Len(s) - n + 1, Len(s))

\* the buffer holds the newest events of the history, in the order of the history,
\* and the newest of all unless it is older than the retention
HoldsNewest(buffer, history, t) ==
    /\ Len(buffer) <= Len(history)
    /\ buffer = Last(history, Len(buffer))
    /\ (Len(history) > 0 /\ history[Len(history)].timestamp > t - EVENT_RETENTION_MS)
           => Len(buffer) > 0

\* C16: the buffer never holds more than maxEvents events, what it holds is always
\* the most recently recorded events in the order they were recorded, and the event
\* of the last recording is in it until it is older than the retention
C16_BufferBounded ==
    /\ Len(securityEvents) <= maxEvents
    /\ HoldsNewest(securityEvents, Recorded, now)

\* a recording has pushed the oldest event out of a full buffer
C16_Witness ==
    /\ Len(securityEvents) = maxEvents
    /\ recorded.earlier + Len(recorded.events) > maxEvents
    /\ securityEvents[maxEvents] = recorded.events[Len(recorded.events)]

-----------------------------------------------------------------------------
(* Claims about the way of a request through the gateway *)

\* a stage before the route handler has answered the request
Rejected == answered.stage \in {"RateLimitingMiddleware", "WafGuard", "DdosProtectionGuard"}

\* C11 as stated: a request rejected by the limiter, by WafGuard or by
\* DdosProtectionGuard does not reach the route handler, and exactly one security
\* event is recorded for it
C11_OneEventPerRejection ==
    Rejected => (~answered.handled /\ Len(answered.events) = 1)

\* C12 as stated: a request blocked by WafGuard changes no counter of
\* DdosProtectionGuard and none of the rate limiter, and a request rejected by
\* DdosProtectionGuard uses up nothing of the rate limiter
C12_BlockedChangesNoCounters ==
    [][gatewayLeft' < gatewayLeft =>
          /\ answered'.stage = "WafGuard" => (limiterHits' = limiterHits /\ Guard' = Guard)
          /\ answered'.stage = "DdosProtectionGuard" => limiterHits' = limiterHits]_vars

\* the catch of WafGuard.canActivate has answered the request
BlockedByWaf == answered.stage = "WafGuard" /\ answered.fault # "WafGuard"

\* the catch of DdosProtectionGuard.canActivate has answered the request
BlockedByDdos == answered.stage = "DdosProtectionGuard" /\ answered.fault # "DdosProtectionGuard"

\* a response body without its timestamp
Payload(body) == [f \in DOMAIN body \ {"timestamp"} |-> body[f]]

\* C17: every request WafGuard blocks is answered 400 with one and the same body up
\* to the timestamp, whatever was detected and where, and every request
\* DdosProtectionGuard rejects is answered 429 with one and the same body up to the
\* timestamp, which carries a positive retryAfter
C17_RejectionsTellNothing ==
    /\ BlockedByWaf =>
          /\ answered.statusCode = 400
          /\ Payload(answered.body) =
                 [statusCode |-> 400, error |-> "WAF_BLOCKED",
                  message |-> "Request blocked by Web Application Firewall"]
    /\ BlockedByDdos =>
          /\ answered.statusCode = 429
          /\ answered.body.retryAfter > 0
          /\ Payload(answered.body) =
                 [statusCode |-> 429, error |-> "DDOS_PROTECTION",
                  message |-> "Request blocked by DDoS protection", retryAfter |-> 60]

\* WafGuard has blocked a request for an attack it found in the body
C17_Witness ==
    /\ BlockedByWaf
    /\ answered.fault = "none"
    /\ answered.thrown # ""
    /\ answered.location = <<"request body">>

\* the texts an event tells in its details
Told(event) ==
    {event.details[f] : f \in DOMAIN event.details \cap {"message", "category", "reason", "attack"}}

\* C18 as stated: the event recorded for a request WafGuard blocks carries the
\* category of the attack and the place it was found in
C18_EventCarriesCategory ==
    (BlockedByWaf /\ answered.fault = "none") =>
        \E i \in 1..Len(answered.events) :
            /\ answered.events[i].type = "WAF_BLOCK"
            /\ answered.thrown \in Told(answered.events[i])
            /\ "location" \in DOMAIN answered.events[i].details
            /\ answered.events[i].details.location = answered.location

\* C19: a request during whose evaluation WafGuard or DdosProtectionGuard raises an
\* exception that none of its checks throws is answered with an error and never
\* reaches the route handler
C19_FailClosed ==
    answered.fault # "none" => (~answered.handled /\ answered.statusCode >= 400)

\* an exception raised inside the try block of WafGuard has been turned into the
\* rejection of the request
C19_Witness ==
    /\ answered.fault = "WafGuard try"
    /\ answered.stage = "WafGuard"
    /\ answered.statusCode = 400

\* C20 as stated: a request for a path the throttler leaves out (health, metrics,
\* status, websocket) is neither rejected nor delayed by any tier of rate limiting
C20_HealthNeverLimited ==
    (answered.request # 0 /\ skipIf(GatewayRequests[answered.request])) =>
        (answered.stage # "RateLimitingMiddleware" /\ answered.delay = 0)

-----------------------------------------------------------------------------
(* Claims about the checks of DdosProtectionGuard *)

\* the step is a request that has reached checkRequestRate
RateChecked ==
    /\ requestsLeft' < requestsLeft \/ warmLeft' < warmLeft
    /\ admitted'.reason \notin {"disabled", "blacklisted", "connections"}

\* the requests of a client that lie in the window ending at t
InWindow(history, clientIP, t) == RecentRequests(MapGet(history, clientIP, <<>>), t, timeWindow)

\* C21 as stated: a request that finds suspiciousRequestsThreshold or more requests
\* of its client in the window leaves the client in the suspicious set
C21_SuspiciousFromThreshold ==
    [][(RateChecked /\ Len(InWindow(ipRequestHistory, admitted'.clientIP, now))
                           >= suspiciousRequestsThreshold)
          => admitted'.clientIP \in suspiciousIPs']_vars

\* The timestamps s are in the order of time, and no window that ends with one of
\* them holds more than maxRequestsPerMinute of them: the timestamp
\* maxRequestsPerMinute places before it lies outside
WindowsWithinLimit(s) ==
    /\ \A i \in 2..Len(s) : s[i - 1] <= s[i]
    /\ \A i \in (maxRequestsPerMinute + 1)..Len(s) :
          s[i] - s[i - maxRequestsPerMinute] >= timeWindow

\* C22: checkRequestRate rejects exactly the request that finds maxRequestsPerMinute
\* or more requests of its client in the window, and leaves the history alone then;
\* a request it lets pass is recorded behind the requests of the window; and no
\* window that ends with a recorded request holds more than maxRequestsPerMinute
\* requests of one client
C22_SlidingWindow ==
    /\ [][RateChecked =>
            IF Len(InWindow(ipRequestHistory, admitted'.clientIP, now)) >= maxRequestsPerMinute
            THEN /\ admitted'.reason = "rate"
                 /\ ipRequestHistory' = ipRequestHistory
            ELSE /\ admitted'.reason # "rate"
                 /\ ipRequestHistory' =
                        MapSet(ipRequestHistory, admitted'.clientIP,
                               Append(InWindow(ipRequestHistory, admitted'.clientIP, now), now))]_vars
    /\ [](\A ip \in DOMAIN ipRequestHistory : WindowsWithinLimit(ipRequestHistory[ip]))

\* a client that was rejected at the limit has passed the rate check again, its
\* earlier requests having left the window
C22_Witness ==
    /\ admitted.clientIP \in suspiciousIPs
    /\ admitted.reason \notin {"none", "disabled", "blacklisted", "connections", "rate"}
    /\ ipRequestHistory[admitted.clientIP] = <<now>>

\* the step is a request on a route that has not disabled the guard
GuardChecked ==
    /\ requestsLeft' < requestsLeft \/ warmLeft' < warmLeft
    /\ ~admitted'.disabled

Retained(s, t) == SelectSeq(s, LAMBDA ts : t - ts < cleanupAge)

\* C24: a cleanup sweep removes every timestamp older than cleanupAge and the clients
\* left with none, removes every connection counter that is not positive and empties
\* the suspicious set; it leaves the timestamps younger than cleanupAge, in their
\* order, the positive connection counters, the blacklist, the signatures and the
\* pending timers as they are
C24_CleanupFrame ==
    [][nextCleanup' # nextCleanup =>
         /\ DOMAIN ipRequestHistory' \subseteq DOMAIN ipRequestHistory
         /\ \A ip \in DOMAIN ipRequestHistory :
               /\ Retained(MapGet(ipRequestHistory', ip, <<>>), now)
                      = Retained(ipRequestHistory[ip], now)
               /\ \A i \in 1..Len(MapGet(ipRequestHistory', ip, <<>>)) :
                      now - ipRequestHistory'[ip][i] <= cleanupAge
         /\ \A ip \in DOMAIN ipRequestHistory' : ipRequestHistory'[ip] # <<>>
         /\ DOMAIN ipConnectionCount' = {ip \in DOMAIN ipConnectionCount : ipConnectionCount[ip] > 0}
         /\ \A ip \in DOMAIN ipConnectionCount' : ipConnectionCount'[ip] = ipConnectionCount[ip]
         /\ suspiciousIPs' = {}
         /\ UNCHANGED <<blacklistedIPs, signatures, settleTimers>>]_vars

\* a sweep has dropped a client whose requests were all older than the retention and
\* kept its connection counter, which was positive
C24_Witness ==
    /\ nextCleanup > cleanupInterval
    /\ S_IP1 \notin DOMAIN ipRequestHistory
    /\ MapGet(ipConnectionCount, S_IP1, 0) > 0
    /\ now >= cleanupAge

\* the settle timers of a client that have been set and have not run
PendingTimers(clientIP) == {i \in 1..Len(settleTimers) : settleTimers[i].ip = clientIP}

\* C30: every client's connection counter equals the number of its settle timers that
\* are pending: so a timer that runs finds the counter positive, and a sweep, which
\* deletes only counters that are not positive, deletes none that has a timer pending
C30_CounterIsPendingTimers ==
    \A ip \in DOMAIN ipConnectionCount \cup {settleTimers[i].ip : i \in 1..Len(settleTimers)} :
        MapGet(ipConnectionCount, ip, 0) = Cardinality(PendingTimers(ip))

\* after a sweep a request has raised a client's counter to one, and its timer is
\* pending
C30_Witness ==
    /\ nextCleanup > cleanupInterval
    /\ Len(settleTimers) = 1
    /\ Head(settleTimers).due > cleanupInterval
    /\ MapGet(ipConnectionCount, Head(settleTimers).ip, 0) = 1

\* the clients of the requests
Clients == {S_IP0, S_IP1, S_IP2}

\* C25: every increment of a connection counter is undone: its timer is due within
\* settleDelay, which is no longer than the interval of the sweeps, and with the
\* timers running a counter that is positive is back at zero later, whether or not
\* the requests it counts were ever completed
C25_IncrementUndone ==
    /\ [](/\ settleDelay <= cleanupInterval
          /\ \A i \in 1..Len(settleTimers) : settleTimers[i].due <= now + settleDelay)
    /\ \A ip \in Clients :
          (MapGet(ipConnectionCount, ip, 0) > 0) ~> (MapGet(ipConnectionCount, ip, 0) = 0)

\* the timers of a burst that took a client to the maximum have all run
C25_Witness ==
    /\ now >= settleDelay
    /\ settleTimers = <<>>
    /\ S_IP1 \in DOMAIN ipConnectionCount
    /\ ipConnectionCount[S_IP1] = 0
    /\ Len(MapGet(ipRequestHistory, S_IP1, <<>>)) >= maxConcurrentConnections

\* a client counts as a persistent attacker once the limits of the guard have rejected
\* this many of its requests in a row
PersistentRejections == 3

\* the limits of the guard rejected the last PersistentRejections requests or more,
\* all of them of clientIP
Attacking(clientIP) ==
    /\ admitted.clientIP = clientIP
    /\ ~admitted.allowed
    /\ admitted.rejections >= PersistentRejections

\* C26: a client whose requests the limits of the guard keep rejecting is put on the
\* blacklist by the guard itself: without a call of blacklistIP, every state where the
\* limits have rejected PersistentRejections requests of the client in a row leads to
\* one where the client is blacklisted.
C26_AttackerBlacklisted ==
    \A clientIP \in Clients : Attacking(clientIP) ~> (clientIP \in blacklistedIPs)

\* C31: a request the blacklist rejects changes nothing the guard keeps; a request a
\* later check rejects keeps what the checks before did: rejected by the rate check,
\* by the pattern analysis or by the ceiling for suspicious clients it has raised the
\* connection counter of its client and scheduled the timer that lowers it, and
\* rejected by the pattern analysis or by the ceiling it stands, with its time, at the
\* end of the client's window.
C31_RejectedKeepsEarlierEffects ==
    [][GuardChecked =>
         LET ip == admitted'.clientIP
             reason == admitted'.reason
         IN  /\ reason = "blacklisted" =>
                   UNCHANGED <<ipConnectionCount, settleTimers, ipRequestHistory,
                               signatures, suspiciousIPs, blacklistedIPs>>
             /\ reason \in {"rate", "bot", "user-agent", "repetitive", "suspicious"} =>
                   /\ ipConnectionCount' =
                         MapSet(ipConnectionCount, ip, MapGet(ipConnectionCount, ip, 0) + 1)
                   /\ settleTimers' =
                         Append(settleTimers, [ip |-> ip, due |-> now + settleDelay])
             /\ reason \in {"bot", "user-agent", "repetitive", "suspicious"} =>
                   ipRequestHistory' =
                       MapSet(ipRequestHistory, ip,
                              Append(InWindow(ipRequestHistory, ip, now), now))]_vars

\* a suspicious client over the ceiling has been rejected for it: the request stands
\* in its window and in its connection counter
C31_Witness ==
    /\ admitted.reason = "suspicious"
    /\ admitted.connectionsAfter = admitted.connections + 1
    /\ Len(InWindow(ipRequestHistory, admitted.clientIP, now)) > suspiciousLimit + 1
    /\ ipRequestHistory[admitted.clientIP][Len(ipRequestHistory[admitted.clientIP])] = now

\* C32: a request of a client in the suspicious set that would bring the requests of
\* the client in the window above suspiciousLimit is rejected, by the ceiling or by a
\* check before it; and the ceiling rejects no request of a client outside the set
\* and none that leaves the window at suspiciousLimit or below.
C32_SuspiciousCeiling ==
    [][GuardChecked =>
         LET ip == admitted'.clientIP
             inWindow == Len(InWindow(ipRequestHistory, ip, now))
         IN  /\ (ip \in suspiciousIPs /\ inWindow + 1 > suspiciousLimit)
                   => ~admitted'.allowed
             /\ admitted'.reason = "suspicious"
                   => /\ ip \in suspiciousIPs
                      /\ inWindow + 1 > suspiciousLimit
             /\ admitted'.reason = "ok"
                   => ip \notin suspiciousIPs \/ inWindow + 1 <= suspiciousLimit]_vars

\* the ceiling has rejected a suspicious client whose window is below the limit of
\* the rate check
C32_Witness ==
    /\ admitted.reason = "suspicious"
    /\ ~admitted.allowed
    /\ admitted.clientIP \in suspiciousIPs
    /\ Len(InWindow(ipRequestHistory, admitted.clientIP, now)) < maxRequestsPerMinute

\* the signature that occurs most often among the kept signatures of clientIP occurs
\* more than repetitionLimit times
Repeated(clientIP) ==
    LET kept == MapGet(signatures, clientIP, <<>>)
    IN  \E i \in 1..Len(kept) :
           Len(SelectSeq(kept, LAMBDA sig : sig = kept[i])) > repetitionLimit

\* C33: the pattern analysis rejects a request as a repetition only when a signature
\* occurs more than repetitionLimit times among the recent requests of the client;
\* and the occurrences stop counting when they are old: a client that has sent nothing
\* for so long that the sweep has dropped it from the request history is not rejected
\* as repeating when it sends the request again.
C33_RepetitionAgesOut ==
    [][GuardChecked =>
         /\ admitted'.reason = "repetitive" => Repeated(admitted'.clientIP)
         /\ admitted'.clientIP \notin DOMAIN ipRequestHistory
               => admitted'.reason # "repetitive"]_vars

\* the clients with more than highActivity requests in the window ending at t
HighActivity(history, t) ==
    {ip \in DOMAIN history : Len(InWindow(history, ip, t)) > highActivity}

\* C34: when the heuristic for distributed attacks runs, at the end of a request that
\* has passed the other checks, and more than distributedIPs clients have more than
\* highActivity requests in the window, these clients and no others are added to the
\* suspicious set; with distributedIPs such clients or fewer the set stays as it is.
C34_DistributedAttack ==
    [][(GuardChecked /\ admitted'.reason = "ok") =>
         LET recentIPs == HighActivity(ipRequestHistory', now)
         IN  suspiciousIPs' = IF Cardinality(recentIPs) > distributedIPs
                              THEN suspiciousIPs \cup recentIPs
                              ELSE suspiciousIPs]_vars

\* the heuristic has marked the clients above highActivity, one more than
\* distributedIPs, and not the client that has sent highActivity requests
C34_Witness ==
    /\ admitted.reason = "ok"
    /\ Cardinality(suspiciousIPs) = distributedIPs + 1
    /\ suspiciousIPs = HighActivity(ipRequestHistory, now)
    /\ \E ip \in DOMAIN ipRequestHistory \ suspiciousIPs :
          Len(InWindow(ipRequestHistory, ip, now)) = highActivity

-----------------------------------------------------------------------------
(* Claims about the paths the throttler leaves out *)

\* the part of a url before its query string
RECURSIVE BeforeQuery(_)
BeforeQuery(s) ==
    IF s = <<>> \/ Head(s) = "?" THEN <<>> ELSE <<Head(s)>> \o BeforeQuery(Tail(s))

\* s begins with prefix
BeginsWith(s, prefix) == Len(s) >= Len(prefix) /\ SubSeq(s, 1, Len(prefix)) = prefix

\* the request is for a health, status, metrics, well-known or websocket endpoint:
\* its path begins with one of skipPaths or with /ws, or names a websocket
ExemptEndpoint(url) ==
    \/ \E i \in 1..Len(skipPaths) : BeginsWith(BeforeQuery(url), skipPaths[i])
    \/ BeginsWith(BeforeQuery(url), <<"/","w","s">>)
    \/ Includes(BeforeQuery(url), <<"w","e","b","s","o","c","k","e","t">>)

\* C35 as stated: only a request for a health, status, metrics, well-known or
\* websocket endpoint passes the throttler uncounted; a request for any other path
\* is counted against the tiers
C35_OnlyExemptEndpointsSkipped ==
    \A i \in 1..Len(throttleLog) :
        throttleLog[i].skipped => ExemptEndpoint(throttleLog[i].url)

-----------------------------------------------------------------------------
(* Claims about the count deletePattern returns *)

\* the keys a tier holds when deletePattern(pattern) is called and that the call
\* matches there: KEYS in Redis, matchesPattern in memory
MatchedKeys(pattern) ==
    {key \in CacheKeys :
        \/ isConnected /\ prefixKey(key) \in RedisKeys(redisStore, prefixKey(pattern), now)
        \/ key \in DOMAIN memoryCache /\ matchesPattern(key, pattern)}

\* the keys of MatchedKeys(pattern) that no tier holds any more after the step
RemovedKeys(pattern) ==
    {key \in MatchedKeys(pattern) :
        /\ key \notin DOMAIN memoryCache'
        /\ prefixKey(key) \notin RedisLive(redisStore', now)}

\* C36 as stated: deletePattern(p) returns the number of keys that matched p and were
\* removed, each key once whether one tier held it or both, and returns 0 exactly
\* when no key matched
C36_DeletedCountExact ==
    [][(cacheOp'.op = "deletePattern" /\ cacheOpsLeft' < cacheOpsLeft)
         => /\ deletePattern(Cache, cacheOp'.key, now, redisUp).deletedCount
                   = Cardinality(RemovedKeys(cacheOp'.key))
            /\ (deletePattern(Cache, cacheOp'.key, now, redisUp).deletedCount = 0)
                   <=> (MatchedKeys(cacheOp'.key) = {})]_vars

-----------------------------------------------------------------------------
(* Claims about the keys derived from templates *)

\* the positional placeholder {{i}} of argument i, counted from 0
PositionalPlaceholder(i) == <<"{","{">> \o <<DecimalDigits[i + 1]>> \o <<"}","}">>

\* the callers whose key has been derived from a template
Derived == {n \in 1..MaxCallers : callers[n].pc = "derived"}

\* two calls of the same template that differ in an argument the template refers to
DifferInReferenced(n, m) ==
    /\ callers[n].template = callers[m].template
    /\ Len(callers[n].args) = Len(callers[m].args)
    /\ \E i \in 1..Len(callers[n].args) :
          /\ Includes(callers[n].template, PositionalPlaceholder(i - 1))
          /\ callers[n].args[i] # callers[m].args[i]

\* C37 as stated: the key derived from a template holds no placeholder that was not
\* substituted, and two calls that differ in a referenced argument get different keys
C37_PlaceholdersSubstituted ==
    /\ \A n \in Derived : ~Includes(callers[n].key, <<"{","{">>)
    /\ \A n \in Derived, m \in Derived :
          DifferInReferenced(n, m) => callers[n].key # callers[m].key

-----------------------------------------------------------------------------
(* Claims about the statistics of the event buffer *)

\* the sum of the counts of an object; a property that is no number counts as none
RECURSIVE SumOver(_, _)
SumOver(obj, keys) ==
    IF keys = {} THEN 0
    ELSE obj[CHOOSE k \in keys : TRUE].n + SumOver(obj, keys \ {CHOOSE k \in keys : TRUE})

\* every property of the object is a count, and the counts add up to total
AddsUpTo(obj, total) ==
    /\ \A key \in DOMAIN obj : obj[key].t = "number"
    /\ SumOver(obj, DOMAIN obj) = total

RECURSIVE SumCounts(_)
SumCounts(timeline) ==
    IF timeline = <<>> THEN 0 ELSE Head(timeline).count + SumCounts(Tail(timeline))

\* the events of the buffer whose timestamp lies within the time range before at
WithinRange(asked) ==
    {i \in 1..Len(asked.buffer) : asked.buffer[i].timestamp > asked.at - asked.timeRange}

\* C38 as stated: getSecurityStats(timeRange) counts exactly the buffered events of
\* the time range; the total is the sum of the counts by type, by severity, by
\* client, by endpoint and by hourly bucket; the call leaves the buffer as it was
C38_StatsAddUp ==
    [][recorded'.asked # recorded.asked
         => /\ securityEvents' = securityEvents
            /\ recorded'.asked.buffer = securityEvents
            /\ recorded'.asked.stats.total = Cardinality(WithinRange(recorded'.asked))
            /\ AddsUpTo(recorded'.asked.stats.byType, recorded'.asked.stats.total)
            /\ AddsUpTo(recorded'.asked.stats.bySeverity, recorded'.asked.stats.total)
            /\ AddsUpTo(recorded'.asked.stats.topIPs, recorded'.asked.stats.total)
            /\ AddsUpTo(recorded'.asked.stats.topEndpoints, recorded'.asked.stats.total)
            /\ SumCounts(recorded'.asked.stats.timeline) = recorded'.asked.stats.total]_vars

====
